---- MODULE Spec2Model ----
(***************************************************************************)
(* A model of the crawler/ingestion core of jirai_sweeties:                *)
(*   - the reconciliation store (store_database.py)      -> SpecDb         *)
(*   - the pagination loop of one crawl (data_extractor.py) -> SpecCrawl   *)
(*   - the scheduler, its limiter and its shutdown (store_manager.py,      *)
(*     main_file.py)                                      -> Spec          *)
(*   - a store task with the products it passes (store_manager.py over     *)
(*     the reconciliation store)                          -> SpecTask      *)
(*   - the schedule test should_run_now                   -> SpecDue       *)
(*   - the reconciliation when upserts fail               -> SpecDbFault   *)
(*   - the reconciliation when the store is not resolved -> SpecStoreFault *)
(*   - concurrent calls of the reconciliation             -> SpecUpsert    *)
(*   - the User-Agent rotator (agent_helper.py)           -> SpecRot       *)
(*   - one crawl with the identities of its attempts      -> SpecFetch     *)
(*   - one crawl that an exception may end                -> SpecCrawlRaised *)
(*   - the parsing of a price (data_extractor.py)         -> SpecPrice     *)
(*   - the extraction of the items of a page              -> SpecExtract   *)
(*   - the limiter under fair scheduling of the tasks     -> SpecLimiter   *)
(* The parts have their own variables; a specification leaves the          *)
(* variables of the other parts at their initial value.                    *)
(***************************************************************************)
EXTENDS Integers, Sequences, FiniteSets, TLC

VARIABLES
    \* ---- reconciliation store -------------------------------------------
    storeTable,     \* rows of table Store: [id, name, initial_fetch]
    productTable,   \* rows of table Product
    nextStoreId,    \* AUTOINCREMENT counter of Store
    nextProductId,  \* AUTOINCREMENT counter of Product
    clock,          \* the last value datetime.now() returned
    last,           \* the last database operation: its arguments, its result,
                    \* and the tables as they were before it
    opCount,        \* number of database operations made so far
    \* ---- one crawl: main_program -----------------------------------------
    site,           \* the remote site: per URL, whether the page can be
                    \* fetched, its items and its next-page link
    cpc,            \* where main_program stands
    current_url,    \* main_program's current_url (NoUrl: None)
    visited_urls,   \* main_program's visited_urls
    retries,        \* main_program's retries
    html,           \* main_program's html: what get_page_content returned last
    tries,          \* the results of the get_page_content calls for current_url
    parsed,         \* the attempt whose text was given to BeautifulSoup, 0 if none
    current_items,  \* main_program's current_items, each item the URL of its page
    fetchSteps,     \* per URL, the pagination steps that fetched it (capped at 2)
    stop,           \* why the pagination loop was left
    \* ---- the scheduler: StoreManager ---------------------------------------
    runner,         \* where schedule_runner stands, and why it left its loop
    shutdown_event, \* StoreManager._shutdown_event
    main_event,     \* main_file.shutdown_event
    session,        \* StoreManager.session: "unset", "open" or "closed"
    db_open,        \* StoreManager.db.conn is open
    sem,            \* the value of SEMAPHORE
    current_tasks,  \* StoreManager.current_tasks, a list of store tasks
    task,           \* per store, the task fetch_store_data of the current tick
    gs,             \* the two calls of StoreManager.graceful_shutdown that can
                    \* be in progress: the requested one and schedule_runner's,
                    \* each with the tasks that were registered when it began
    ticks,          \* ticks that dispatched tasks
    dispatched,     \* store tasks created so far
    backlog,        \* the Product table holds rows with is_sent = 0
    \* ---- one store task with its data: fetch_store_data --------------------
    job,            \* per store, its task: position, lists held, what it did
    jobsRun,        \* tasks dispatched so far
    \* ---- one evaluation of a schedule: should_run_now ----------------------
    schedule,       \* store["schedule"]
    wall_clock,     \* datetime.now()
    verdict,        \* what should_run_now returned, None before the call
    \* ---- one price of one product: extract_items_by_config -----------------
    price_text,     \* price_tag.text.strip(), a sequence of characters
    currency,       \* price_config["currency"]
    prices,         \* the prices dict of the product, None before the parsing
    containers,     \* soup.select(item_container_selector): the candidates
    page_items,     \* what extract_items_by_config returned, None before
    \* ---- the identities of one crawl: get_page_content ----------------------
    picks,          \* per URL, the pool entries its attempts were given
    \* ---- concurrent calls of sync_store_products ----------------------------
    db_lock,        \* db_lock: the call that holds it, 0 when it is free
    up,             \* per writer, its call: position, store, items, item reached
    sections,       \* the upsert sections completed so far, in their order
    \* ---- the User-Agent rotator: agent_helper -------------------------------
    user_agent_index,   \* the module's cursor, None before the first call
    index_file,     \* last_user_agent_index.txt: absent, or its text
    file_lock,      \* file_lock: the call that holds it, 0 when it is free
    waiters,        \* the calls waiting for file_lock, in their order
    rot,            \* per caller, its call of next_user_agent
    taken,          \* the pool entries picked by the calls of this process
    returned,       \* for each call that returned, its number among the calls
    rotCalls        \* calls of next_user_agent made so far

dbVars == <<storeTable, productTable, nextStoreId, nextProductId, clock, last, opCount>>

crawlVars == <<site, cpc, current_url, visited_urls, retries, html, tries, parsed,
               current_items, fetchSteps, stop>>

schedVars == <<runner, shutdown_event, main_event, session, db_open, sem, current_tasks,
               task, gs, ticks, dispatched, backlog>>

priceVars == <<price_text, currency, prices, containers, page_items>>

upsertVars == <<db_lock, up, sections>>

dueVars == <<schedule, wall_clock, verdict, priceVars, picks, upsertVars>>

rotVars == <<user_agent_index, index_file, file_lock, waiters, rot, taken, returned,
             rotCalls>>

taskVars == <<job, jobsRun, dueVars, rotVars>>

vars == <<dbVars, crawlVars, schedVars, taskVars>>

(***************************************************************************)
(*                        RECONCILIATION STORE                             *)
(***************************************************************************)

\* SQL NULL of Store.initial_fetch; timestamps are 1, 2, ...
NULL == 0

\* Python None / Some(v), for the optional fields of an item
None == <<>>
Some(v) == <<v>>

\* ---- bounds ---------------------------------------------------------------
MaxOps == 3     \* database operations in one behaviour
MaxLen == 2     \* items in one list passed to sync_store_products

StoreNames == {"s", "t"}

\* str.strip() on the strings of the model: "A " is "A" followed by a blank.
Strip(str) == IF str = "A " THEN "A" ELSE IF str = " n" THEN "n" ELSE str

\* str(x) of an optional image: str(None) is the text "None".
Str(opt) == IF opt = None THEN "None" ELSE opt[1]

\* The items a page can yield. prices is the dict of the item, a currency
\* without a parsed price being absent from it (None here).
Item(n, u, i, pj, pe, a) ==
    [name |-> n, product_url |-> u, image_url |-> i,
     prices |-> [JPY |-> pj, EUR |-> pe], archived |-> a]

ItemUniverse ==
    { Item(Some("n"),  "A",  Some("I"), Some(1), None,    FALSE),
      Item(Some("m"),  "A ", Some("I"), Some(2), Some(5), TRUE),
      Item(Some(" n"), "B",  Some("I"), Some(1), None,    FALSE),
      Item(Some("n"),  "A",  None,      None,    Some(5), FALSE),
      Item(None,       "B",  Some("J"), Some(1), None,    FALSE) }

ItemLists == UNION { [1..n -> ItemUniverse] : n \in 0..MaxLen }

\* ---- add_store ------------------------------------------------------------
\* SELECT id FROM Store WHERE name = ?  (fetchone: the first row)
StoreIdOf(stores, name) ==
    LET found == {r \in stores : r.name = name}
    IN  (CHOOSE r \in found : \A q \in found : r.id <= q.id).id

\* Returns the tables after the call and the id of the store.
AddStore(stores, nsid, name) ==
    IF \E r \in stores : r.name = name
    THEN [stores |-> stores, nextStoreId |-> nsid, id |-> StoreIdOf(stores, name)]
    ELSE [stores |-> stores \cup {[id |-> nsid, name |-> name, initial_fetch |-> NULL]},
          nextStoreId |-> nsid + 1, id |-> nsid]

\* a faulty variant of AddStoreFailed: the row left behind counts as fetched
AddStoreFailedStamped(stores, nsid, name, at) ==
    IF at = "reselect"
    THEN [stores |-> stores \cup {[id |-> nsid, name |-> name, initial_fetch |-> 1]},
          nextStoreId |-> nsid + 1, id |-> NULL]
    ELSE [stores |-> stores, nextStoreId |-> nsid, id |-> NULL]

\* add_store when the storage raises Error at the statement `at`: the SELECT,
\* the INSERT or the SELECT after the INSERT. It returns None; each
\* statement is committed on its own, so a failure after the INSERT leaves
\* the new row behind.
AddStoreFailed(stores, nsid, name, at) ==
    IF at = "reselect"
    THEN [stores |-> stores \cup {[id |-> nsid, name |-> name, initial_fetch |-> NULL]},
          nextStoreId |-> nsid + 1, id |-> NULL]
    ELSE [stores |-> stores, nextStoreId |-> nsid, id |-> NULL]

\* SELECT initial_fetch FROM Store WHERE id = ?
InitialFetchOf(stores, sid) == (CHOOSE r \in stores : r.id = sid).initial_fetch

\* ---- add_or_update_product ------------------------------------------------
\* D is the Product table with its counters: [products, nextProductId, clock]

\* a faulty variant of LookupByImage: the lookup forgets the store
LookupByImageAnyStore(products, image_url, store_id) ==
    {p \in products : p.image_url = image_url}

\* SELECT ... FROM Product WHERE (image_url = ?) AND store_id = ?
LookupByImage(products, image_url, store_id) ==
    {p \in products : p.image_url = image_url /\ p.store_id = store_id}

\* a faulty variant of MatchByUrl: the wrong column is compared
MatchByName(db_products, product_url) ==
    {p \in db_products : p.name = product_url}

\* for product in db_products: if product["product_url"] == product_url
MatchByUrl(db_products, product_url) ==
    {p \in db_products : p.product_url = product_url}

\* a faulty variant of NewRow: the row is inserted as already delivered
NewRowSent(id, name, product_url, image_url, price_jpy, price_eur, archived, store_id, now) ==
    [id |-> id, name |-> name, product_url |-> product_url, image_url |-> image_url,
     price_jpy |-> price_jpy, price_eur |-> price_eur, archived |-> archived,
     first_seen |-> now, last_seen |-> now, is_sent |-> 1, store_id |-> store_id]

\* the row INSERT INTO Product (...) VALUES (...) creates; is_sent defaults to 0
NewRow(id, name, product_url, image_url, price_jpy, price_eur, archived, store_id, now) ==
    [id |-> id, name |-> name, product_url |-> product_url, image_url |-> image_url,
     price_jpy |-> price_jpy, price_eur |-> price_eur, archived |-> archived,
     first_seen |-> now, last_seen |-> now, is_sent |-> 0, store_id |-> store_id]

\* a faulty variant of UpdatedRow: the refresh also restarts first_seen
UpdatedRowTouchingFirstSeen(row, price_jpy, price_eur, archived, now) ==
    [row EXCEPT !.price_jpy = price_jpy, !.price_eur = price_eur,
                !.archived = archived, !.last_seen = now, !.first_seen = now]

\* UPDATE Product SET price_jpy = ?, price_eur = ?, archived = ?, last_seen = ? WHERE id = ?
UpdatedRow(row, price_jpy, price_eur, archived, now) ==
    [row EXCEPT !.price_jpy = price_jpy, !.price_eur = price_eur,
                !.archived = archived, !.last_seen = now]

\* the ProductDataType dict returned for an inserted row
ProductDict(id, name, product_url, image_url, price_jpy, price_eur) ==
    [id |-> id, name |-> name, product_url |-> product_url, image_url |-> image_url,
     prices |-> [JPY |-> price_jpy, EUR |-> price_eur]]

\* Case 1 and case 2a: insert a row and return it with the given status
InsertProduct(D, status, name, product_url, image_url, price_jpy, price_eur, archived, store_id, now) ==
    [D |-> [products |-> D.products \cup
                {NewRow(D.nextProductId, name, product_url, image_url,
                        price_jpy, price_eur, archived, store_id, now)},
            nextProductId |-> D.nextProductId + 1,
            clock |-> now],
     status |-> status,
     product |-> Some(ProductDict(D.nextProductId, name, product_url, image_url,
                                  price_jpy, price_eur))]

\* Case 2b: update the first row that matches by URL, return ("", None)
RefreshProduct(D, matching, price_jpy, price_eur, archived, now) ==
    LET row == CHOOSE r \in matching : \A q \in matching : r.id <= q.id
    IN  [D |-> [products |-> (D.products \ {row}) \cup
                    {UpdatedRow(row, price_jpy, price_eur, archived, now)},
                nextProductId |-> D.nextProductId,
                clock |-> now],
         status |-> "",
         product |-> None]

\* a faulty variant of AddOrUpdateProduct: case 2a overwrites the row that shares the
\* image instead of inserting a sibling
AddOrUpdateProductOverwriting(D, name, product_url, image_url, price_jpy, price_eur, archived, store_id) ==
    LET now == D.clock + 1
        db_products == LookupByImage(D.products, image_url, store_id)
        matching == MatchByUrl(db_products, product_url)
    IN  IF db_products = {}
        THEN InsertProduct(D, "new", name, product_url, image_url,
                           price_jpy, price_eur, archived, store_id, now)
        ELSE IF matching = {}
        THEN LET row == CHOOSE r \in db_products : \A q \in db_products : r.id <= q.id
                 row2 == [UpdatedRow(row, price_jpy, price_eur, archived, now)
                             EXCEPT !.product_url = product_url]
             IN  [D |-> [products |-> (D.products \ {row}) \cup {row2},
                         nextProductId |-> D.nextProductId, clock |-> now],
                  status |-> "updated",
                  product |-> Some(ProductDict(row.id, name, product_url, image_url,
                                               price_jpy, price_eur))]
        ELSE RefreshProduct(D, matching, price_jpy, price_eur, archived, now)

AddOrUpdateProduct(D, name, product_url, image_url, price_jpy, price_eur, archived, store_id) ==
    LET now == D.clock + 1
        db_products == LookupByImage(D.products, image_url, store_id)
        matching == MatchByUrl(db_products, product_url)
    IN  IF db_products = {}
        THEN InsertProduct(D, "new", name, product_url, image_url,
                           price_jpy, price_eur, archived, store_id, now)
        ELSE IF matching = {}
        THEN InsertProduct(D, "updated", name, product_url, image_url,
                           price_jpy, price_eur, archived, store_id, now)
        ELSE RefreshProduct(D, matching, price_jpy, price_eur, archived, now)

\* ---- sync_store_products --------------------------------------------------
\* item["name"].strip() raises on a missing name: the item is skipped
Malformed(item) == item.name = None

\* a faulty variant of Reported: the first-crawl suppression is forgotten
ReportedAlways(status, wanted, product, initial_fetch) ==
    status = wanted /\ product # None

\* if product_status == ... and product and not initial_fetch
Reported(status, wanted, product, initial_fetch) ==
    status = wanted /\ product # None /\ ~initial_fetch

\* what add_or_update_product was called with, after the normalisation of
\* sync_store_products (strip, str, int(bool))
Normalised(item) ==
    [name |-> Strip(item.name[1]),
     product_url |-> Strip(item.product_url),
     image_url |-> Strip(Str(item.image_url)),
     price_jpy |-> item.prices.JPY, price_eur |-> item.prices.EUR,
     archived |-> IF item.archived THEN 1 ELSE 0]

\* which of the two returned lists the result of an upsert is appended to
ListOf(status, product, initial_fetch) ==
    IF Reported(status, "new", product, initial_fetch) THEN "new"
    ELSE IF Reported(status, "updated", product, initial_fetch) THEN "updated"
    ELSE "none"

\* a faulty variant of UpsertFailed: the failed statement takes the rows of
\* the table with it
UpsertFailedLosingAll(D) ==
    [D |-> [D EXCEPT !.products = {}], status |-> "error", product |-> None]

\* add_or_update_product when a statement of it fails: "except Error as e:
\* ... return "error", None". Each statement commits on its own, so nothing
\* of the call is written.
UpsertFailed(D) == [D |-> D, status |-> "error", product |-> None]

\* the loop over current_items from item k on; R = [D, new, updated, steps],
\* steps recording each pass of the loop for the properties; failing: the
\* positions of the items whose upsert meets a storage error
RECURSIVE SyncItems(_, _, _, _, _, _)
SyncItems(R, store_id, items, k, initial_fetch, failing) ==
    IF k > Len(items) THEN R
    ELSE LET item == items[k]
         IN  IF Malformed(item)
             THEN SyncItems([R EXCEPT !.steps = Append(@,
                                [args |-> None, status |-> "raised", list |-> "none",
                                 pre |-> R.D.products, post |-> R.D.products])],
                            store_id, items, k + 1, initial_fetch, failing)
             ELSE LET a == Normalised(item)
                      res == IF k \in failing
                             THEN UpsertFailed(R.D)
                             ELSE AddOrUpdateProduct(R.D, a.name, a.product_url,
                                                     a.image_url, a.price_jpy, a.price_eur,
                                                     a.archived, store_id)
                      list == ListOf(res.status, res.product, initial_fetch)
                      R2 == [D |-> res.D,
                             new |-> IF list = "new"
                                     THEN Append(R.new, res.product[1]) ELSE R.new,
                             updated |-> IF list = "updated"
                                         THEN Append(R.updated, res.product[1]) ELSE R.updated,
                             steps |-> Append(R.steps,
                                [args |-> Some(a), status |-> res.status, list |-> list,
                                 pre |-> R.D.products, post |-> res.D.products])]
                  IN  SyncItems(R2, store_id, items, k + 1, initial_fetch, failing)

\* a faulty variant of SetInitialFetch: the timestamp is written on every call
SetInitialFetchAlways(stores, sid, initial_fetch, now) ==
    {IF r.id = sid THEN [r EXCEPT !.initial_fetch = now] ELSE r : r \in stores}

\* UPDATE Store SET initial_fetch = ? WHERE id = ?   (only when it is NULL)
SetInitialFetch(stores, sid, initial_fetch, now) ==
    IF initial_fetch
    THEN {IF r.id = sid THEN [r EXCEPT !.initial_fetch = now] ELSE r : r \in stores}
    ELSE stores

\* the whole call: [stores, nextStoreId, sid, D, new, updated, steps]
SyncStoreProducts(stores, nsid, D, store_name, items, failing) ==
    LET st == AddStore(stores, nsid, store_name)
        initial_fetch == InitialFetchOf(st.stores, st.id) = NULL
        now == D.clock + 1
        D1 == IF initial_fetch THEN [D EXCEPT !.clock = now] ELSE D
        R == SyncItems([D |-> D1, new |-> <<>>, updated |-> <<>>, steps |-> <<>>],
                       st.id, items, 1, initial_fetch, failing)
    IN  [stores |-> SetInitialFetch(st.stores, st.id, initial_fetch, now),
         nextStoreId |-> st.nextStoreId, sid |-> st.id,
         D |-> R.D, new |-> R.new, updated |-> R.updated, steps |-> R.steps]

\* ---- mark_products_as_archived, mark_product_as_sent, delete_* -------------
\* a faulty variant of MarkedArchived: the UPDATE forgets the store
MarkedArchivedAnyStore(products, store_id, urls, now) ==
    {IF p.product_url \in urls
     THEN [p EXCEPT !.archived = 1, !.last_seen = now] ELSE p : p \in products}

\* a faulty variant of MarkedArchived: the rows are deleted, not flagged
MarkedArchivedDeleting(products, store_id, urls, now) ==
    {p \in products : ~(p.store_id = store_id /\ p.product_url \in urls)}

\* UPDATE Product SET archived = 1, last_seen = ? WHERE store_id = ? AND product_url IN (...)
MarkedArchived(products, store_id, urls, now) ==
    {IF p.store_id = store_id /\ p.product_url \in urls
     THEN [p EXCEPT !.archived = 1, !.last_seen = now] ELSE p : p \in products}

\* UPDATE Product SET is_sent = 1 WHERE id = ?
MarkedSent(products, product_id) ==
    {IF p.id = product_id THEN [p EXCEPT !.is_sent = 1] ELSE p : p \in products}

(***************************************************************************)
(*                     ONE CRAWL: main_program                             *)
(***************************************************************************)

NPages == 3             \* URLs of the site
max_retries == 3        \* main_program: max_retries = 3

Urls == 1..NPages
NoUrl == 0              \* None, as a URL
base_url == 1           \* store['options']['base_url']

\* The next-page link of a page: none that matches, one without the link
\* attribute, or one that names a page by a relative or an absolute address.
Links == {[kind |-> "absent", target |-> NoUrl], [kind |-> "no_href", target |-> NoUrl]}
         \cup [kind : {"relative", "absolute"}, target : Urls]

\* get_next_page_url_by_config: None without a matching link or without the
\* attribute, else the address, prefixed with site_main_url when relative.
\* Both forms name the URL `target`.
NextPageUrl(link) ==
    IF link.kind \in {"absent", "no_href"} THEN NoUrl ELSE link.target

Sites == [Urls -> [link : Links, nitems : 0..1]]

\* a faulty variant of AlreadyVisited: the cycle guard is missing
NeverVisited(url, visited) == FALSE

\* if current_url in visited_urls
AlreadyVisited(url, visited) == url \in visited

\* current_items.extend(page_items), the items tagged with the URL of their page
Extended(items, url, n) ==
    IF n = 0 \/ Len(items) > NPages THEN items ELSE Append(items, url)

\* What get_page_content returns: None (the request failed), the text of the
\* response, which is empty when the body is empty. attempt numbers the call
\* among the calls for the same URL.
NoHtml == [kind |-> "none", attempt |-> 0]
Returned(kind, n) == [kind |-> kind, attempt |-> n]

\* a faulty variant of Truthy: a failed page counts as fetched
TruthyAlways(h) == TRUE

\* "if html" / "if not html": None and the empty string are false
Truthy(h) == h.kind = "text"

CrawlIdle ==
    /\ site = [u \in Urls |-> [link |-> [kind |-> "absent", target |-> NoUrl], nitems |-> 0]]
    /\ cpc = "idle"
    /\ current_url = NoUrl
    /\ visited_urls = {}
    /\ retries = 0
    /\ html = NoHtml
    /\ tries = <<>>
    /\ parsed = 0
    /\ current_items = <<>>
    /\ fetchSteps = [u \in Urls |-> 0]
    /\ stop = "none"

\* main_program entered: current_url = base_url, nothing collected or visited
CrawlInit ==
    /\ site \in Sites
    /\ cpc = "loop"
    /\ current_url = base_url
    /\ visited_urls = {}
    /\ retries = 0
    /\ html = NoHtml
    /\ tries = <<>>
    /\ parsed = 0
    /\ current_items = <<>>
    /\ fetchSteps = [u \in Urls |-> 0]
    /\ stop = "none"

\* while current_url: if current_url in visited_urls: break; visited_urls.add
LoopHead ==
    /\ cpc = "loop"
    /\ UNCHANGED <<dbVars, schedVars, taskVars>>
    /\ IF current_url = NoUrl
       THEN /\ cpc' = "finish"
            /\ UNCHANGED <<visited_urls, retries, html, tries, parsed, fetchSteps, stop>>
       ELSE IF AlreadyVisited(current_url, visited_urls)
       THEN /\ cpc' = "finish"
            /\ stop' = "visited"
            /\ UNCHANGED <<visited_urls, retries, html, tries, parsed, fetchSteps>>
       ELSE /\ visited_urls' = visited_urls \cup {current_url}
            /\ retries' = 0
            /\ html' = NoHtml
            /\ tries' = <<>>
            /\ parsed' = 0
            /\ fetchSteps' = [fetchSteps EXCEPT
                                ![current_url] = IF @ < 2 THEN @ + 1 ELSE @]
            /\ cpc' = "fetch"
            /\ UNCHANGED stop
    /\ UNCHANGED <<site, current_url, current_items>>

\* html = await get_page_content(...) returning a non-empty text: break
FetchOk ==
    /\ cpc = "fetch"
    /\ UNCHANGED <<dbVars, schedVars, taskVars>>
    /\ html' = Returned("text", Len(tries) + 1)
    /\ tries' = Append(tries, "text")
    /\ cpc' = "extract"
    /\ UNCHANGED <<site, current_url, visited_urls, retries, parsed, current_items,
                   fetchSteps, stop>>

\* get_page_content returning None (kind "none": the request raised) or the
\* text of an empty body (kind "empty"): retries += 1, await asyncio.sleep(2)
FetchFail(kind) ==
    /\ cpc = "fetch"
    /\ UNCHANGED <<dbVars, schedVars, taskVars>>
    /\ html' = Returned(kind, Len(tries) + 1)
    /\ tries' = Append(tries, kind)
    /\ retries' = retries + 1
    /\ cpc' = "retry_sleep"
    /\ UNCHANGED <<site, current_url, visited_urls, parsed, current_items, fetchSteps, stop>>

\* the sleep over: while retries < max_retries, then if not html
RetryWake ==
    /\ cpc = "retry_sleep"
    /\ UNCHANGED <<dbVars, schedVars, taskVars>>
    /\ IF retries < max_retries
       THEN cpc' = "fetch" /\ UNCHANGED stop
       ELSE IF ~Truthy(html)
       THEN cpc' = "finish" /\ stop' = "fetch_failed"
       ELSE cpc' = "extract" /\ UNCHANGED stop
    /\ UNCHANGED <<site, current_url, visited_urls, retries, html, tries, parsed,
                   current_items, fetchSteps>>

\* BeautifulSoup(html), extract_items_by_config, get_next_page_url_by_config,
\* if not next_url: break
Extract ==
    /\ cpc = "extract"
    /\ UNCHANGED <<dbVars, schedVars, taskVars>>
    /\ parsed' = html.attempt
    /\ current_items' = Extended(current_items, current_url, site[current_url].nitems)
    /\ LET next_url == NextPageUrl(site[current_url].link)
       IN  IF next_url = NoUrl
           THEN /\ cpc' = "finish"
                /\ stop' = site[current_url].link.kind
                /\ UNCHANGED current_url
           ELSE /\ current_url' = next_url
                /\ cpc' = "delay"
                /\ UNCHANGED stop
    /\ UNCHANGED <<site, visited_urls, retries, html, tries, fetchSteps>>

\* await asyncio.sleep(delay_between_requests + jitter) over
DelayWake ==
    /\ cpc = "delay"
    /\ UNCHANGED <<dbVars, schedVars, taskVars>>
    /\ cpc' = "loop"
    /\ UNCHANGED <<site, current_url, visited_urls, retries, html, tries, parsed,
                   current_items, fetchSteps, stop>>

\* the loop left: process_items when items were collected, and return
Finish ==
    /\ cpc = "finish"
    /\ UNCHANGED <<dbVars, schedVars, taskVars>>
    /\ cpc' = "done"
    /\ UNCHANGED <<site, current_url, visited_urls, retries, html, tries, parsed,
                   current_items, fetchSteps, stop>>

\* a faulty variant of ExceptException: the handler takes every exception
ExceptAnything(kind) == TRUE

\* "except Exception" takes the exceptions that derive from Exception;
\* asyncio.CancelledError derives from BaseException
ExceptException(kind) == kind = "Exception"

\* An exception is raised inside the try of main_program: CancelledError is
\* thrown into the task at the await where it is suspended (the page fetch,
\* the pause before a retry, the delay before the next page), an Exception
\* is raised by the parsing of a page. The handler of main_program takes it
\* and the collected items are processed, or it leaves main_program: then
\* fetch_store_data re-raises it and the task ends cancelled.
CrawlRaised(kind) ==
    /\ kind = "CancelledError" => cpc \in {"fetch", "retry_sleep", "delay"}
    /\ kind = "Exception" => cpc = "extract"
    /\ UNCHANGED <<dbVars, schedVars, taskVars>>
    /\ stop' = kind
    /\ cpc' = IF ExceptException(kind) THEN "finish" ELSE "cancelled"
    /\ UNCHANGED <<site, current_url, visited_urls, retries, html, tries, parsed,
                   current_items, fetchSteps>>

CrawlNext ==
    \/ LoopHead
    \/ FetchOk
    \/ \E kind \in {"none", "empty"} : FetchFail(kind)
    \/ RetryWake
    \/ Extract
    \/ DelayWake
    \/ Finish

(***************************************************************************)
(*                     THE SCHEDULER: StoreManager                         *)
(***************************************************************************)

SEMAPHORE == 3          \* SEMAPHORE = asyncio.Semaphore(3)

NStores == 4            \* configured stores
MaxTicks == 2           \* ticks that dispatch tasks
MaxTasks == 4           \* store tasks created in one behaviour

Stores == 1..NStores

\* A store task. pc: "none" (never dispatched), "created" (create_task done,
\* not yet run), the await it is suspended at ("send_unsent", "wait_sem",
\* "crawl", "send_new", "send_updated", "saving"), or "done".
\* cancel: "no", "pending" (task.cancel() called, CancelledError not yet
\* thrown into the task) or "delivered". outcome: how the task ended.
NoTask == [pc |-> "none", cancel |-> "no", updated |-> FALSE, outcome |-> "none"]
NewTask == [NoTask EXCEPT !.pc = "created"]

\* a call of graceful_shutdown. registered: the tasks of current_tasks that
\* ran when its for loop began
IdleGs == [pc |-> "idle", idx |-> 0, awaiting |-> 0, registered |-> {}]

\* task.done()
Done(s) == task[s].pc = "done"

\* the task runs: it was started and has not ended
InFlight(s) == task[s].pc \in {"send_unsent", "wait_sem", "crawl", "send_new",
                               "send_updated", "saving"}

\* the task is inside "async with SEMAPHORE"
InLimiter(s) == task[s].pc \in {"crawl", "send_new", "send_updated", "saving"}

SchedConstructed ==
    /\ runner = [pc |-> "start", exit |-> "none", children |-> {}]
    /\ shutdown_event = FALSE
    /\ main_event = FALSE
    /\ session = "unset"
    /\ db_open = TRUE
    /\ sem = SEMAPHORE
    /\ current_tasks = <<>>
    /\ task = [s \in Stores |-> NoTask]
    /\ gs = [who \in {"ext", "runner"} |-> IdleGs]
    /\ ticks = 0
    /\ dispatched = 0

SchedIdle == SchedConstructed /\ backlog = FALSE

\* the database file may hold undelivered products of earlier runs
SchedInit == SchedConstructed /\ backlog \in BOOLEAN

\* ---- stop_session -------------------------------------------------------
\* if self.session: await self.session.close(); self.session = None
ClosedSession(sess) == IF sess = "open" THEN "closed" ELSE sess

StopSession ==
    /\ session' = ClosedSession(session)
    /\ db_open' = FALSE

\* ---- the limiter --------------------------------------------------------
\* a faulty variant of SemaphoreFree: acquire never waits
SemaphoreAlwaysFree(value) == TRUE

\* Semaphore.acquire returns at once when the value is positive
SemaphoreFree(value) == value > 0

\* a faulty variant of SemaphoreReleased: the permit is not returned
SemaphoreKept(value) == value

\* leaving "async with SEMAPHORE", normally or by an exception: release()
SemaphoreReleased(value) == value + 1

\* async with SEMAPHORE: ... self.current_tasks.append(task); await main_program
EnterLimiter(s) ==
    IF SemaphoreFree(sem)
    THEN /\ sem' = sem - 1
         /\ current_tasks' = Append(current_tasks, s)
         /\ task' = [task EXCEPT ![s].pc = "crawl"]
    ELSE /\ task' = [task EXCEPT ![s].pc = "wait_sem"]
         /\ UNCHANGED <<sem, current_tasks>>

\* self.current_tasks.remove(task)
Removed(list, s) == SelectSeq(list, LAMBDA x : x # s)

\* ---- fetch_store_data ---------------------------------------------------
\* the task starts: fetch_unsent_products, then the "unsent" notifier call or
\* the limiter. get_unsent_products returns [] on a closed connection.
T_Start(s) ==
    /\ task[s].pc = "created"
    /\ IF backlog /\ db_open
       THEN /\ task' = [task EXCEPT ![s].pc = "send_unsent"]
            /\ UNCHANGED <<sem, current_tasks>>
       ELSE EnterLimiter(s)
    /\ UNCHANGED <<dbVars, crawlVars, taskVars, runner, shutdown_event, main_event, session,
                   db_open, gs, ticks, dispatched, backlog>>

\* the "unsent" notifier call returned
T_UnsentSent(s) ==
    /\ task[s].pc = "send_unsent"
    /\ EnterLimiter(s)
    /\ UNCHANGED <<dbVars, crawlVars, taskVars, runner, shutdown_event, main_event, session,
                   db_open, gs, ticks, dispatched, backlog>>

\* the "unsent" notifier call raised: the call is outside the try, the
\* exception leaves fetch_store_data
T_UnsentRaise(s) ==
    /\ task[s].pc = "send_unsent"
    /\ task' = [task EXCEPT ![s].pc = "done", ![s].outcome = "raised"]
    /\ UNCHANGED <<dbVars, crawlVars, taskVars, runner, shutdown_event, main_event, session,
                   db_open, sem, current_tasks, gs, ticks, dispatched, backlog>>

\* a waiting acquire is granted
T_Acquire(s) ==
    /\ task[s].pc = "wait_sem"
    /\ SemaphoreFree(sem)
    /\ EnterLimiter(s)
    /\ UNCHANGED <<dbVars, crawlVars, taskVars, runner, shutdown_event, main_event, session,
                   db_open, gs, ticks, dispatched, backlog>>

\* main_program returned: new and updated say which lists are non-empty, ins
\* whether reconciliation inserted rows (inserted rows have is_sent = 0). An
\* empty result ([] cannot be unpacked, or two empty lists) goes to finally.
T_CrawlReturn(s, new, updated, ins) ==
    /\ task[s].pc = "crawl"
    /\ task[s].cancel = "no"
    /\ (new \/ updated) => ins
    /\ task' = [task EXCEPT ![s].pc = IF new THEN "send_new"
                                      ELSE IF updated THEN "send_updated"
                                      ELSE "saving",
                            ![s].updated = updated]
    /\ backlog' = (backlog \/ ins)
    /\ UNCHANGED <<dbVars, crawlVars, taskVars, runner, shutdown_event, main_event, session,
                   db_open, sem, current_tasks, gs, ticks, dispatched>>

\* the "new" notifier call returned
T_NewSent(s) ==
    /\ task[s].pc = "send_new"
    /\ task[s].cancel = "no"
    /\ task' = [task EXCEPT ![s].pc = IF task[s].updated THEN "send_updated" ELSE "saving"]
    /\ UNCHANGED <<dbVars, crawlVars, taskVars, runner, shutdown_event, main_event, session,
                   db_open, sem, current_tasks, gs, ticks, dispatched, backlog>>

\* the "new" notifier call raised: except Exception, then finally
T_NewRaise(s) ==
    /\ task[s].pc = "send_new"
    /\ task[s].cancel = "no"
    /\ task' = [task EXCEPT ![s].pc = "saving", ![s].updated = FALSE]
    /\ UNCHANGED <<dbVars, crawlVars, taskVars, runner, shutdown_event, main_event, session,
                   db_open, sem, current_tasks, gs, ticks, dispatched, backlog>>

\* the "updated" notifier call returned or raised: finally in both cases
T_UpdatedDone(s) ==
    /\ task[s].pc = "send_updated"
    /\ task[s].cancel = "no"
    /\ task' = [task EXCEPT ![s].pc = "saving", ![s].updated = FALSE]
    /\ UNCHANGED <<dbVars, crawlVars, taskVars, runner, shutdown_event, main_event, session,
                   db_open, sem, current_tasks, gs, ticks, dispatched, backlog>>

\* CancelledError thrown into the task inside the try: except CancelledError
\* re-raises, finally awaits save_index_after_task
T_Cancelled(s) ==
    /\ task[s].pc \in {"crawl", "send_new", "send_updated"}
    /\ task[s].cancel = "pending"
    /\ task' = [task EXCEPT ![s].pc = "saving", ![s].cancel = "delivered",
                            ![s].updated = FALSE]
    /\ UNCHANGED <<dbVars, crawlVars, taskVars, runner, shutdown_event, main_event, session,
                   db_open, sem, current_tasks, gs, ticks, dispatched, backlog>>

\* CancelledError thrown into the task at the await of the finally block: the
\* rest of the block (the removal from current_tasks) is skipped, the limiter
\* is released by "async with"
T_CancelledSaving(s) ==
    /\ task[s].pc = "saving"
    /\ task[s].cancel = "pending"
    /\ task' = [task EXCEPT ![s].pc = "done", ![s].cancel = "delivered",
                            ![s].outcome = "cancelled"]
    /\ sem' = SemaphoreReleased(sem)
    /\ UNCHANGED <<dbVars, crawlVars, taskVars, runner, shutdown_event, main_event, session,
                   db_open, current_tasks, gs, ticks, dispatched, backlog>>

\* save_index_after_task returned: the task removes itself, the limiter is
\* released, the task ends (cancelled when it is handling a CancelledError)
T_Saved(s) ==
    /\ task[s].pc = "saving"
    /\ task[s].cancel # "pending"
    /\ current_tasks' = Removed(current_tasks, s)
    /\ sem' = SemaphoreReleased(sem)
    /\ task' = [task EXCEPT ![s].pc = "done",
                            ![s].outcome = IF task[s].cancel = "delivered"
                                           THEN "cancelled" ELSE "ok"]
    /\ UNCHANGED <<dbVars, crawlVars, taskVars, runner, shutdown_event, main_event, session,
                   db_open, gs, ticks, dispatched, backlog>>

\* ---- graceful_shutdown ----------------------------------------------------
\* the position at or after idx of the first task of current_tasks that is
\* not done, Len + 1 when there is none (the list iterator of the for loop)
RECURSIVE FirstLive(_)
FirstLive(idx) ==
    IF idx > Len(current_tasks) THEN idx
    ELSE IF ~Done(current_tasks[idx]) THEN idx
    ELSE FirstLive(idx + 1)

\* the for loop resumed at position idx of current_tasks, up to its next
\* await: cancel the next task that is not done and await it, or, the list
\* exhausted, stop_session
GsLoop(who, idx) ==
    LET j == FirstLive(idx)
        reg == IF idx = 1
               THEN {current_tasks[i] : i \in {k \in 1..Len(current_tasks) :
                                                  ~Done(current_tasks[k])}}
               ELSE gs[who].registered
    IN  IF j <= Len(current_tasks)
        THEN /\ task' = [task EXCEPT ![current_tasks[j]].cancel = "pending"]
             /\ gs' = [gs EXCEPT ![who] = [pc |-> "await", idx |-> j + 1,
                                           awaiting |-> current_tasks[j],
                                           registered |-> reg]]
             /\ UNCHANGED <<session, db_open>>
        ELSE /\ gs' = [gs EXCEPT ![who] = [pc |-> "done", idx |-> 0, awaiting |-> 0,
                                           registered |-> reg]]
             /\ StopSession
             /\ UNCHANGED task

\* a faulty variant of AlreadyShuttingDown: the event is never seen set
NeverShuttingDown(event) == FALSE

\* "if self._shutdown_event.is_set(): return" of StoreManager.graceful_shutdown,
\* "if not shutdown_event.is_set():" of main_file.graceful_shutdown
AlreadyShuttingDown(event) == event

\* main_file.graceful_shutdown, calling StoreManager.graceful_shutdown; a
\* request made when main_file.shutdown_event is set does nothing
E_Request ==
    /\ main_event' = TRUE
    /\ IF AlreadyShuttingDown(main_event) \/ AlreadyShuttingDown(shutdown_event)
       THEN UNCHANGED <<shutdown_event, task, gs, session, db_open>>
       ELSE /\ shutdown_event' = TRUE
            /\ GsLoop("ext", 1)
    /\ UNCHANGED <<dbVars, crawlVars, taskVars, runner, sem, current_tasks, ticks, dispatched, backlog>>

\* "await task" of the requested call returned
E_Resume ==
    /\ gs["ext"].pc = "await"
    /\ Done(gs["ext"].awaiting)
    /\ GsLoop("ext", gs["ext"].idx)
    /\ UNCHANGED <<dbVars, crawlVars, taskVars, runner, shutdown_event, main_event, sem,
                   current_tasks, ticks, dispatched, backlog>>

\* ---- schedule_runner ------------------------------------------------------
\* await self.start_session()
R_Start ==
    /\ runner.pc = "start"
    /\ session' = "open"
    /\ runner' = [runner EXCEPT !.pc = "loop"]
    /\ UNCHANGED <<dbVars, crawlVars, taskVars, shutdown_event, main_event, db_open, sem,
                   current_tasks, task, gs, ticks, dispatched, backlog>>

\* a faulty variant of LoopCondition: the loop goes on whatever the event
LoopAlways(event) == TRUE

\* while not self._shutdown_event.is_set()
LoopCondition(event) == ~event

\* while not self._shutdown_event.is_set(): the event is set
R_LoopExit ==
    /\ runner.pc = "loop"
    /\ ~LoopCondition(shutdown_event)
    /\ runner' = [runner EXCEPT !.pc = "fin_stop", !.exit = "event"]
    /\ UNCHANGED <<dbVars, crawlVars, taskVars, shutdown_event, main_event, session, db_open, sem,
                   current_tasks, task, gs, ticks, dispatched, backlog>>

\* run_scheduled_tasks: a task per store whose schedule matches now (due),
\* then gather, or straight to the 60 s wait
R_Tick(due) ==
    /\ runner.pc = "loop"
    /\ LoopCondition(shutdown_event)
    /\ due # {} => ticks < MaxTicks /\ dispatched + Cardinality(due) <= MaxTasks
    /\ task' = [s \in Stores |-> IF s \in due THEN NewTask ELSE task[s]]
    /\ ticks' = IF due = {} THEN ticks ELSE ticks + 1
    /\ dispatched' = dispatched + Cardinality(due)
    /\ runner' = [runner EXCEPT !.pc = IF due = {} THEN "wait" ELSE "gather",
                                !.children = due]
    /\ UNCHANGED <<dbVars, crawlVars, taskVars, shutdown_event, main_event, session, db_open, sem,
                   current_tasks, gs, backlog>>

\* a faulty variant of GatherReturned: the tick does not await its tasks
GatherNotAwaited(children) == TRUE

\* await asyncio.gather(*tasks) returns when every task has ended
GatherReturned(children) == \A s \in children : Done(s) /\ task[s].outcome = "ok"

\* gather returned: every task of the tick ended without an exception
R_GatherDone ==
    /\ runner.pc = "gather"
    /\ GatherReturned(runner.children)
    /\ runner' = [runner EXCEPT !.pc = "wait"]
    /\ UNCHANGED <<dbVars, crawlVars, taskVars, shutdown_event, main_event, session, db_open, sem,
                   current_tasks, task, gs, ticks, dispatched, backlog>>

\* gather raised the exception of a task: except Exception, then finally.
\* The other tasks of the tick are left running.
R_GatherRaise ==
    /\ runner.pc = "gather"
    /\ \E s \in runner.children : task[s].outcome = "raised"
    /\ runner' = [runner EXCEPT !.pc = "fin_stop", !.exit = "error"]
    /\ UNCHANGED <<dbVars, crawlVars, taskVars, shutdown_event, main_event, session, db_open, sem,
                   current_tasks, task, gs, ticks, dispatched, backlog>>

\* gather raised CancelledError, a task of the tick having been cancelled:
\* except asyncio.CancelledError, then finally
R_GatherCancelled ==
    /\ runner.pc = "gather"
    /\ \E s \in runner.children : task[s].outcome = "cancelled"
    /\ runner' = [runner EXCEPT !.pc = "fin_stop", !.exit = "cancelled"]
    /\ UNCHANGED <<dbVars, crawlVars, taskVars, shutdown_event, main_event, session, db_open, sem,
                   current_tasks, task, gs, ticks, dispatched, backlog>>

\* wait_for(self._shutdown_event.wait(), timeout=60) over, by the timeout or
\* by the event: back to the loop condition
R_Wake ==
    /\ runner.pc = "wait"
    /\ runner' = [runner EXCEPT !.pc = "loop"]
    /\ UNCHANGED <<dbVars, crawlVars, taskVars, shutdown_event, main_event, session, db_open, sem,
                   current_tasks, task, gs, ticks, dispatched, backlog>>

\* finally: await self.stop_session()
R_FinStop ==
    /\ runner.pc = "fin_stop"
    /\ StopSession
    /\ runner' = [runner EXCEPT !.pc = "fin_gs"]
    /\ UNCHANGED <<dbVars, crawlVars, taskVars, shutdown_event, main_event, sem,
                   current_tasks, task, gs, ticks, dispatched, backlog>>

\* finally: await self.graceful_shutdown()
R_FinGs ==
    /\ runner.pc = "fin_gs"
    /\ IF AlreadyShuttingDown(shutdown_event)
       THEN /\ runner' = [runner EXCEPT !.pc = "fin_sleep"]
            /\ UNCHANGED <<shutdown_event, task, gs, session, db_open>>
       ELSE /\ shutdown_event' = TRUE
            /\ GsLoop("runner", 1)
            /\ runner' = [runner EXCEPT !.pc = IF FirstLive(1) <= Len(current_tasks)
                                               THEN "fin_gs_await" ELSE "fin_sleep"]
    /\ UNCHANGED <<dbVars, crawlVars, taskVars, main_event, sem, current_tasks, ticks, dispatched, backlog>>

\* "await task" of schedule_runner's graceful_shutdown returned
R_FinGsResume ==
    /\ runner.pc = "fin_gs_await"
    /\ Done(gs["runner"].awaiting)
    /\ GsLoop("runner", gs["runner"].idx)
    /\ runner' = [runner EXCEPT !.pc = IF FirstLive(gs["runner"].idx) <= Len(current_tasks)
                                       THEN "fin_gs_await" ELSE "fin_sleep"]
    /\ UNCHANGED <<dbVars, crawlVars, taskVars, shutdown_event, main_event, sem, current_tasks,
                   ticks, dispatched, backlog>>

\* finally: await asyncio.sleep(0.1); logging.shutdown()
R_FinSleep ==
    /\ runner.pc = "fin_sleep"
    /\ runner' = [runner EXCEPT !.pc = "stopped"]
    /\ UNCHANGED <<dbVars, crawlVars, taskVars, shutdown_event, main_event, session, db_open, sem,
                   current_tasks, task, gs, ticks, dispatched, backlog>>

Next ==
    \/ R_Start
    \/ R_LoopExit
    \/ \E k \in 0..NStores : R_Tick(1..k)
    \/ R_GatherDone
    \/ R_GatherRaise
    \/ R_GatherCancelled
    \/ R_Wake
    \/ R_FinStop
    \/ R_FinGs
    \/ R_FinGsResume
    \/ R_FinSleep
    \/ E_Request
    \/ E_Resume
    \/ \E s \in Stores :
          \/ T_Start(s)
          \/ T_UnsentSent(s)
          \/ T_UnsentRaise(s)
          \/ T_Acquire(s)
          \/ \E new, updated, ins \in BOOLEAN : T_CrawlReturn(s, new, updated, ins)
          \/ T_NewSent(s)
          \/ T_NewRaise(s)
          \/ T_UpdatedDone(s)
          \/ T_Cancelled(s)
          \/ T_CancelledSaving(s)
          \/ T_Saved(s)

\* ---- the operations as actions -------------------------------------------
\* ---- concurrent calls of sync_store_products ------------------------------
NWriters == 2       \* store tasks that reconcile at the same time
MaxSyncs == 2       \* calls of sync_store_products they make in all
Writers == 1..NWriters

\* a call of sync_store_products by a store task. pc: "idle", "item" (at
\* "async with self.db_lock" for the item k), "write" (inside the section,
\* the SELECT done). found: what the SELECT returned; now: datetime.now()
\* of the section
NoUpsert == [pc |-> "idle", sid |-> 0, items |-> <<>>, k |-> 0,
             found |-> [any |-> FALSE, matching |-> {}], now |-> 0]

UpsertIdle ==
    /\ db_lock = 0
    /\ up = [w \in Writers |-> NoUpsert]
    /\ sections = <<>>

\* a faulty variant of LockFree: the section is entered whoever is inside
LockAlwaysFree(lock) == TRUE

\* async with self.db_lock: the section is entered when the lock is free
LockFree(lock) == lock = 0

\* sync_store_products up to its loop: add_store, the read of
\* initial_fetch and its UPDATE on a first fetch. The items are well-formed.
U_Begin(w, store_name, items) ==
    /\ up[w].pc = "idle"
    /\ opCount < MaxSyncs
    /\ \A k \in 1..Len(items) : ~Malformed(items[k])
    /\ LET st == AddStore(storeTable, nextStoreId, store_name)
           initial_fetch == InitialFetchOf(st.stores, st.id) = NULL
       IN  /\ storeTable' = SetInitialFetch(st.stores, st.id, initial_fetch, clock + 1)
           /\ nextStoreId' = st.nextStoreId
           /\ clock' = IF initial_fetch THEN clock + 1 ELSE clock
           /\ up' = [up EXCEPT ![w] = [NoUpsert EXCEPT
                         !.pc = IF items = <<>> THEN "idle" ELSE "item",
                         !.sid = st.id, !.items = items, !.k = 1]]
    /\ opCount' = opCount + 1
    /\ UNCHANGED <<productTable, nextProductId, last, db_lock, sections>>
    /\ UNCHANGED <<crawlVars, schedVars, job, jobsRun, schedule, wall_clock, verdict,
                   priceVars, picks, rotVars>>

\* add_or_update_product from the lock to the end of its SELECT and of the
\* search for the matching URL
U_Select(w) ==
    /\ up[w].pc = "item"
    /\ LockFree(db_lock)
    /\ LET a == Normalised(up[w].items[up[w].k])
           db_products == LookupByImage(productTable, a.image_url, up[w].sid)
           matching == MatchByUrl(db_products, a.product_url)
       IN  up' = [up EXCEPT ![w].pc = "write",
                            ![w].found = [any |-> db_products # {},
                                          matching |-> {p.id : p \in matching}],
                            ![w].now = clock + 1]
    /\ db_lock' = w
    /\ clock' = clock + 1
    /\ UNCHANGED <<storeTable, nextStoreId, productTable, nextProductId, last, opCount,
                   sections>>
    /\ UNCHANGED <<crawlVars, schedVars, job, jobsRun, schedule, wall_clock, verdict,
                   priceVars, picks, rotVars>>

\* the INSERT or the UPDATE that the SELECT decided, and the lock released
U_Write(w) ==
    /\ up[w].pc = "write"
    /\ LET a == Normalised(up[w].items[up[w].k])
           D == [products |-> productTable, nextProductId |-> nextProductId,
                 clock |-> clock]
           res == IF ~up[w].found.any
                  THEN InsertProduct(D, "new", a.name, a.product_url, a.image_url,
                                     a.price_jpy, a.price_eur, a.archived, up[w].sid,
                                     up[w].now)
                  ELSE IF up[w].found.matching = {}
                  THEN InsertProduct(D, "updated", a.name, a.product_url, a.image_url,
                                     a.price_jpy, a.price_eur, a.archived, up[w].sid,
                                     up[w].now)
                  ELSE RefreshProduct(D, {p \in productTable : p.id \in up[w].found.matching},
                                      a.price_jpy, a.price_eur, a.archived, up[w].now)
       IN  /\ productTable' = res.D.products
           /\ nextProductId' = res.D.nextProductId
           /\ sections' = Append(sections, [w |-> w, sid |-> up[w].sid, args |-> a,
                                            now |-> up[w].now])
    /\ db_lock' = 0
    /\ up' = [up EXCEPT ![w].pc = IF up[w].k = Len(up[w].items) THEN "idle" ELSE "item",
                        ![w].k = up[w].k + 1]
    /\ UNCHANGED <<storeTable, nextStoreId, clock, last, opCount>>
    /\ UNCHANGED <<crawlVars, schedVars, job, jobsRun, schedule, wall_clock, verdict,
                   priceVars, picks, rotVars>>

UpsertNext ==
    \/ \E w \in Writers, S \in StoreNames, L \in ItemLists : U_Begin(w, S, L)
    \/ \E w \in Writers : U_Select(w)
    \/ \E w \in Writers : U_Write(w)

NoOp == [op |-> "init", store |-> "", sid |-> 0, items |-> <<>>, failing |-> {},
         new |-> <<>>, updated |-> <<>>, steps |-> <<>>, repeat |-> FALSE,
         prevNew |-> <<>>, prevUpdated |-> <<>>,
         preStores |-> {}, preProducts |-> {}, preNextProductId |-> 1]

Called(op, store) ==
    [NoOp EXCEPT !.op = op, !.store = store, !.preStores = storeTable,
                 !.preProducts = productTable, !.preNextProductId = nextProductId]

DbInit ==
    /\ storeTable = {}
    /\ productTable = {}
    /\ nextStoreId = 1
    /\ nextProductId = 1
    /\ clock = 0
    /\ last = NoOp
    /\ opCount = 0

\* sync_store_products(store_name, items); failing: the positions of the
\* items whose upsert meets a storage error
SyncCall(store_name, items, failing) ==
    /\ opCount < MaxOps
    /\ UNCHANGED <<crawlVars, schedVars, taskVars>>
    /\ LET r == SyncStoreProducts(storeTable, nextStoreId,
                    [products |-> productTable, nextProductId |-> nextProductId,
                     clock |-> clock], store_name, items, failing)
       IN  /\ storeTable' = r.stores
           /\ nextStoreId' = r.nextStoreId
           /\ productTable' = r.D.products
           /\ nextProductId' = r.D.nextProductId
           /\ clock' = r.D.clock
           /\ last' = [Called("sync", store_name) EXCEPT
                         !.sid = r.sid, !.items = items, !.failing = failing,
                         !.new = r.new,
                         !.updated = r.updated, !.steps = r.steps,
                         !.repeat = (last.op = "sync" /\ last.store = store_name
                                     /\ last.items = items),
                         !.prevNew = last.new, !.prevUpdated = last.updated]
    /\ opCount' = opCount + 1

\* the call when the storage answers every statement
Sync(store_name, items) == SyncCall(store_name, items, {})

\* the call when the storage fails the upsert of some items
SyncWithErrors(store_name, items, failing) ==
    /\ failing # {}
    /\ failing \subseteq 1..Len(items)
    /\ SyncCall(store_name, items, failing)

\* the call when add_store fails at the statement `at`: "if store_id is
\* None: return [], []". The INSERT is reached only for a store without row.
SyncUnresolved(store_name, items, at) ==
    /\ opCount < MaxOps
    /\ at # "select" => ~\E r \in storeTable : r.name = store_name
    /\ UNCHANGED <<crawlVars, schedVars, taskVars>>
    /\ LET st == AddStoreFailed(storeTable, nextStoreId, store_name, at)
       IN  /\ storeTable' = st.stores
           /\ nextStoreId' = st.nextStoreId
           /\ last' = [Called("sync_unresolved", store_name) EXCEPT
                         !.sid = st.id, !.items = items]
    /\ opCount' = opCount + 1
    /\ UNCHANGED <<productTable, nextProductId, clock>>

MarkProductsAsArchived(store_name, urls) ==
    /\ opCount < MaxOps
    /\ UNCHANGED <<crawlVars, schedVars, taskVars>>
    /\ IF urls = {}
       THEN UNCHANGED <<storeTable, nextStoreId, productTable, clock>>
       ELSE LET st == AddStore(storeTable, nextStoreId, store_name)
            IN  /\ storeTable' = st.stores
                /\ nextStoreId' = st.nextStoreId
                /\ productTable' = MarkedArchived(productTable, st.id, urls, clock + 1)
                /\ clock' = clock + 1
    /\ last' = Called("archive", store_name)
    /\ opCount' = opCount + 1
    /\ UNCHANGED nextProductId

MarkProductAsSent(product_id) ==
    /\ opCount < MaxOps
    /\ product_id <= nextProductId
    /\ UNCHANGED <<crawlVars, schedVars, taskVars>>
    /\ productTable' = MarkedSent(productTable, product_id)
    /\ last' = Called("sent", "")
    /\ opCount' = opCount + 1
    /\ UNCHANGED <<storeTable, nextStoreId, nextProductId, clock>>

DeleteStore(store_name) ==
    /\ opCount < MaxOps
    /\ UNCHANGED <<crawlVars, schedVars, taskVars>>
    /\ IF \E r \in storeTable : r.name = store_name
       THEN LET sid == StoreIdOf(storeTable, store_name)
            IN  /\ productTable' = {p \in productTable : p.store_id # sid}
                /\ storeTable' = {r \in storeTable : r.id # sid}
       ELSE UNCHANGED <<storeTable, productTable>>
    /\ last' = Called("delete_store", store_name)
    /\ opCount' = opCount + 1
    /\ UNCHANGED <<nextStoreId, nextProductId, clock>>

DeleteProduct(product_name) ==
    /\ opCount < MaxOps
    /\ UNCHANGED <<crawlVars, schedVars, taskVars>>
    /\ productTable' = {p \in productTable : p.name # product_name}
    /\ last' = Called("delete_product", "")
    /\ opCount' = opCount + 1
    /\ UNCHANGED <<storeTable, nextStoreId, nextProductId, clock>>

DbNext ==
    \/ \E S \in StoreNames, L \in ItemLists : Sync(S, L)
    \/ \E S \in StoreNames, U \in SUBSET {"A", "B"} : MarkProductsAsArchived(S, U)
    \/ \E id \in 1..(MaxOps * MaxLen + 1) : MarkProductAsSent(id)
    \/ \E S \in StoreNames : DeleteStore(S)
    \/ \E n \in {"n", "m"} : DeleteProduct(n)

(***************************************************************************)
(*          THE PRICE OF A PRODUCT: extract_items_by_config                *)
(***************************************************************************)

MaxText == 4            \* longest price text tried, the examples apart

\* A price is a multiple of 1/Scale: 12345.0 is 12345 * Scale, 15.50 is
\* 1550 * Scale \div 100.
Scale == 10000

DigitChars == {"0", "1", "2", "3", "4", "5", "6", "7", "8", "9"}

\* int(c) of a digit
DigitOf(c) ==
    CASE c = "0" -> 0 [] c = "1" -> 1 [] c = "2" -> 2 [] c = "3" -> 3 [] c = "4" -> 4
      [] c = "5" -> 5 [] c = "6" -> 6 [] c = "7" -> 7 [] c = "8" -> 8 [] c = "9" -> 9

\* the character classes [\d,] and [\d.,]
JpyClass == DigitChars \cup {","}
EurClass == DigitChars \cup {",", "."}

\* re.search(class+, text).group(0): the longest run of characters of the
\* class that starts at the first character of the class, <<>> when the
\* text has none (no match)
RECURSIVE RunFrom(_, _, _)
RunFrom(text, class, k) ==
    IF k > Len(text) \/ text[k] \notin class THEN <<>>
    ELSE <<text[k]>> \o RunFrom(text, class, k + 1)

RECURSIVE Search(_, _, _)
Search(text, class, k) ==
    IF k > Len(text) THEN <<>>
    ELSE IF text[k] \in class THEN RunFrom(text, class, k)
    ELSE Search(text, class, k + 1)

\* .replace(",", "") and .replace(".", "")
Replaced(text, char) == SelectSeq(text, LAMBDA c : c # char)

\* float(text) of a text of digits, in units of 1/Scale
RECURSIVE FloatOf(_)
FloatOf(text) ==
    IF Len(text) = 1 THEN DigitOf(text[1]) * Scale
    ELSE FloatOf(SubSeq(text, 1, Len(text) - 1)) * 10 + DigitOf(text[Len(text)]) * Scale

\* a faulty variant of Cents: the number is taken for euros
CentsAsEuros(value) == value

\* float(cleaned_price) / 100
Cents(value) == value \div 100

\* the price parsed from the text for a currency: Some(price), or None when
\* there is no match or float raises ValueError on the empty text
ParsedPrice(text, cur) ==
    IF cur = "JPY"
    THEN LET cleaned_price == Replaced(Search(text, JpyClass, 1), ",")
         IN  IF cleaned_price = <<>> THEN None ELSE Some(FloatOf(cleaned_price))
    ELSE LET cleaned_price == Replaced(Replaced(Search(text, EurClass, 1), ","), ".")
         IN  IF cleaned_price = <<>> THEN None ELSE Some(Cents(FloatOf(cleaned_price)))

\* the price texts tried: every text of up to MaxText characters of a small
\* alphabet, and the two texts of the documentation
PriceChars == {"1", "5", ",", ".", " "}

JpyExample == <<"¥", "1", "2", ",", "3", "4", "5">>
EurExample == <<"1", "5", ",", "5", "0", " ", "€">>

PriceTexts ==
    UNION {[1..n -> PriceChars] : n \in 0..MaxText} \cup {JpyExample, EurExample}

PriceIdle ==
    /\ price_text = <<>>
    /\ currency = "JPY"
    /\ prices = None
    /\ containers = <<>>
    /\ page_items = None

PriceInit ==
    /\ price_text \in PriceTexts
    /\ currency \in {"JPY", "EUR"}
    /\ prices = None
    /\ containers = <<>>
    /\ page_items = None

\* "if price_tag:" ... prices["JPY"] = ... / prices["EUR"] = ...: the prices
\* dict after the selector of the currency was handled
ParsePrice ==
    /\ prices = None
    /\ prices' = Some([c \in {"JPY", "EUR"} |->
                        IF c = currency THEN ParsedPrice(price_text, currency) ELSE None])
    /\ UNCHANGED <<price_text, currency, containers, page_items, schedule, wall_clock,
                   verdict, picks, upsertVars>>
    /\ UNCHANGED <<dbVars, crawlVars, schedVars, job, jobsRun, rotVars>>

PriceNext == ParsePrice

\* ---- the candidates of a page ----------------------------------------------
MaxContainers == 2      \* candidates on one page

\* A candidate: name, the text of the name tag stripped (None without the
\* tag); link, the href (None without the tag or the attribute); image, the
\* src; price_jpy and price_eur, the text of the price tag of the currency
\* (None without the tag); sold_out, whether sold_out_selector matches.
Candidates ==
    [name : {None, Some(""), Some("n")},
     link : {None, Some(""), Some("/p"), Some("http://p")},
     image : {None, Some("I")},
     price_jpy : {None, Some(<<",">>), Some(<<"1", "5">>)},
     price_eur : {None, Some(<<"5", ",", "5", "0">>)},
     sold_out : BOOLEAN]

\* f"{config['site_main_url']}{link}" if link and not link.startswith("http")
\* else link
ProductUrlOf(link) ==
    IF link = None \/ link = Some("") THEN link
    ELSE IF link = Some("/p") THEN Some("S/p")
    ELSE link

\* a faulty variant of Kept: a candidate without a price is kept
KeptWithoutPrices(name, product_url, price_dict) ==
    /\ name # None /\ name # Some("")
    /\ product_url # None /\ product_url # Some("")

\* if name and product_url and prices: None, "" and {} are false
Kept(name, product_url, price_dict) ==
    /\ name # None /\ name # Some("")
    /\ product_url # None /\ product_url # Some("")
    /\ \E c \in {"JPY", "EUR"} : price_dict[c] # None

\* the prices dict of a candidate: a currency is in it when its tag is
\* there and its text price_dict
PricesOf(c) ==
    [JPY |-> IF c.price_jpy = None THEN None ELSE ParsedPrice(c.price_jpy[1], "JPY"),
     EUR |-> IF c.price_eur = None THEN None ELSE ParsedPrice(c.price_eur[1], "EUR")]

\* the loop over the candidates from k on: items.append({...}) for each
\* candidate that is kept
RECURSIVE extract_items_by_config(_, _)
extract_items_by_config(products, k) ==
    IF k > Len(products) THEN <<>>
    ELSE LET c == products[k]
             product_url == ProductUrlOf(c.link)
             price_dict == PricesOf(c)
             rest == extract_items_by_config(products, k + 1)
         IN  IF Kept(c.name, product_url, price_dict)
             THEN <<Item(c.name, product_url[1], c.image, price_dict.JPY, price_dict.EUR,
                         c.sold_out)>> \o rest
             ELSE rest

\* one page with its candidates, not yet extracted
ExtractInit ==
    /\ price_text = <<>>
    /\ currency = "JPY"
    /\ prices = None
    /\ containers \in UNION {[1..n -> Candidates] : n \in 1..MaxContainers}
    /\ page_items = None

\* page_items = await extract_items_by_config(soup, store['options'])
ExtractItems ==
    /\ page_items = None
    /\ containers # <<>>
    /\ page_items' = Some(extract_items_by_config(containers, 1))
    /\ UNCHANGED <<price_text, currency, prices, containers, schedule, wall_clock,
                   verdict, picks, upsertVars>>
    /\ UNCHANGED <<dbVars, crawlVars, schedVars, job, jobsRun, rotVars>>

ExtractNext == ExtractItems

(***************************************************************************)
(*               THE SCHEDULE OF A STORE: should_run_now                   *)
(***************************************************************************)

MaxMinutes == 2         \* longest list of minutes of a schedule

\* str(n) of a natural number: its decimal digits
RECURSIVE Digits(_)
Digits(n) == IF n < 10 THEN <<n>> ELSE Digits(n \div 10) \o <<n % 10>>

\* a field of a schedule: the string "*" or a list of integers
Wildcard == [star |-> TRUE, list |-> <<>>]
Listed(list) == [star |-> FALSE, list |-> list]

\* a faulty variant of IsWildcard: "*" is taken for a list
NeverWildcard(field) == FALSE

\* field == "*"
IsWildcard(field) == field.star

\* str(x) in map(str, list)
InMapStr(x, list) == \E i \in 1..Len(list) : Digits(list[i]) = Digits(x)

should_run_now(sch, t) ==
    IF ~InMapStr(t.minute, sch.minutes) THEN FALSE
    ELSE IF ~IsWildcard(sch.hours) /\ ~InMapStr(t.hour, sch.hours.list) THEN FALSE
    ELSE IF ~IsWildcard(sch.days) /\ ~InMapStr(t.day, sch.days.list) THEN FALSE
    ELSE IF ~IsWildcard(sch.months) /\ ~InMapStr(t.month, sch.months.list) THEN FALSE
    ELSE IF ~IsWildcard(sch.years) /\ ~InMapStr(t.year, sch.years.list) THEN FALSE
    ELSE TRUE

\* the times and the schedules tried
Minutes == {0, 5, 30}
Hours == {0, 14}
Days == {1, 2}
Months == {1, 11}
Years == {2024, 2025}

Times == [minute : Minutes, hour : Hours, day : Days, month : Months, year : Years]

\* "*", the empty list, or a list of one value
FieldsOver(values) == {Wildcard, Listed(<<>>)} \cup {Listed(<<v>>) : v \in values}

Schedules ==
    [minutes : UNION {[1..n -> Minutes] : n \in 1..MaxMinutes},
     hours : FieldsOver(Hours), days : FieldsOver(Days),
     months : FieldsOver(Months), years : FieldsOver(Years)]

\* the schedule and the time of a part that evaluates no schedule
Schedules0 == [minutes |-> <<0>>, hours |-> Wildcard, days |-> Wildcard,
               months |-> Wildcard, years |-> Wildcard]
Times0 == [minute |-> 0, hour |-> 0, day |-> 1, month |-> 1, year |-> 2024]

DueIdle ==
    /\ PriceIdle
    /\ picks = [u \in Urls |-> <<>>]
    /\ UpsertIdle
    /\ schedule = Schedules0
    /\ wall_clock = Times0
    /\ verdict = None

DueInit ==
    /\ PriceIdle
    /\ picks = [u \in Urls |-> <<>>]
    /\ UpsertIdle
    /\ schedule \in Schedules
    /\ wall_clock \in Times
    /\ verdict = None

\* run_scheduled_tasks: "if await self.should_run_now(store):"
ShouldRunNow ==
    /\ verdict = None
    /\ verdict' = Some(should_run_now(schedule, wall_clock))
    /\ UNCHANGED <<dbVars, crawlVars, schedVars, job, jobsRun, schedule, wall_clock,
                   priceVars, picks, upsertVars, rotVars>>

(***************************************************************************)
(*               THE USER-AGENT ROTATOR: agent_helper                      *)
(***************************************************************************)

NAgents == 3            \* entries of user_agents.txt
NCallers == 3           \* store tasks that call next_user_agent
MaxCalls == 5           \* calls of next_user_agent in one behaviour

\* user_agent_list: the lines of user_agents.txt
user_agent_list == [i \in 1..NAgents |-> <<"agent", i>>]

Callers == 1..NCallers

\* The text of the index file: a sequence of characters, the digits 0..9 as
\* themselves and NotADigit for any other character.
NotADigit == 10
Absent == [kind |-> "absent", text |-> <<>>]
TextFile(text) == [kind |-> "text", text |-> text]

\* int(text) of a text of digits
RECURSIVE IntOf(_)
IntOf(text) ==
    IF Len(text) = 1 THEN text[1]
    ELSE IntOf(SubSeq(text, 1, Len(text) - 1)) * 10 + text[Len(text)]

\* int(text) raises ValueError: the text is empty or holds another character
NotAnInt(text) == text = <<>> \/ \E i \in 1..Len(text) : text[i] = NotADigit

\* a faulty variant of get_last_user_agent_index: an absent or unreadable
\* record starts the rotation at the last entry
GetLastUserAgentIndexLast(file) ==
    IF file.kind = "absent" \/ NotAnInt(file.text) THEN NAgents - 1 ELSE IntOf(file.text)

\* with open(AGENT_INDEX_FILE) as f: return int(f.read().strip()); except
\* (FileNotFoundError, ValueError): return 0
get_last_user_agent_index(file) ==
    IF file.kind = "absent" THEN 0
    ELSE IF NotAnInt(file.text) THEN 0
    ELSE IntOf(file.text)

\* the index files a process can start with: none, one left empty or
\* unreadable, or one written by save_last_user_agent_index
IndexFiles ==
    {Absent, TextFile(<<>>), TextFile(<<NotADigit>>)}
    \cup {TextFile(Digits(i)) : i \in 0..(NAgents - 1)}

\* a faulty variant of Wrapped: the cursor wraps one entry late
WrappedLate(index) == IF index > NAgents THEN 0 ELSE index

\* if user_agent_index >= len(user_agent_list): user_agent_index = 0
Wrapped(index) == IF index >= NAgents THEN 0 ELSE index

\* a call of next_user_agent. pc: "idle", "wait_lock" (await of
\* file_lock.acquire), "open" (the lock held, await of aiofiles.open),
\* "write" (the file opened and so truncated, await of f.write).
\* index: the argument of save_last_user_agent_index; no: the number of the
\* call among the calls of the process
NoCall == [pc |-> "idle", index |-> 0, no |-> 0]

RotIdle ==
    /\ user_agent_index = None
    /\ index_file = Absent
    /\ file_lock = 0
    /\ waiters = <<>>
    /\ rot = [c \in Callers |-> NoCall]
    /\ taken = <<>>
    /\ returned = <<>>
    /\ rotCalls = 0

\* the module imported: the cursor not yet read, the file as an earlier
\* process left it
RotInit ==
    /\ user_agent_index = None
    /\ index_file \in IndexFiles
    /\ file_lock = 0
    /\ waiters = <<>>
    /\ rot = [c \in Callers |-> NoCall]
    /\ taken = <<>>
    /\ returned = <<>>
    /\ rotCalls = 0

\* next_user_agent up to its await: the cursor read from the file when it is
\* None, the entry picked, the cursor advanced and wrapped, then
\* save_last_user_agent_index(user_agent_index) up to its first await: the
\* lock taken when it is free and nobody waits for it, else the call queued
NextUserAgent(c) ==
    /\ rot[c].pc = "idle"
    /\ rotCalls < MaxCalls
    /\ LET start == IF user_agent_index = None
                    THEN get_last_user_agent_index(index_file)
                    ELSE user_agent_index[1]
           next == Wrapped(start + 1)
           free == file_lock = 0 /\ waiters = <<>>
       IN  /\ start + 1 \in DOMAIN user_agent_list
           /\ taken' = Append(taken, user_agent_list[start + 1])
           /\ user_agent_index' = Some(next)
           /\ rotCalls' = rotCalls + 1
           /\ rot' = [rot EXCEPT ![c] = [pc |-> IF free THEN "open" ELSE "wait_lock",
                                         index |-> next, no |-> Len(taken) + 1]]
           /\ file_lock' = IF free THEN c ELSE file_lock
           /\ waiters' = IF free THEN waiters ELSE Append(waiters, c)
    /\ UNCHANGED <<index_file, returned>>
    /\ UNCHANGED <<dbVars, crawlVars, schedVars, job, jobsRun, dueVars>>

\* the call c over and file_lock released by it: the lock goes to the first
\* call that waits for it, which goes on to aiofiles.open
Released(c) ==
    /\ file_lock' = IF waiters = <<>> THEN 0 ELSE Head(waiters)
    /\ waiters' = IF waiters = <<>> THEN waiters ELSE Tail(waiters)
    /\ rot' = [x \in Callers |->
                 IF x = c THEN NoCall
                 ELSE IF waiters # <<>> /\ x = Head(waiters)
                      THEN [rot[x] EXCEPT !.pc = "open"]
                 ELSE rot[x]]

\* aiofiles.open(AGENT_INDEX_FILE, 'w') returned: the file exists and is empty
RotOpened(c) ==
    /\ rot[c].pc = "open"
    /\ index_file' = TextFile(<<>>)
    /\ rot' = [rot EXCEPT ![c].pc = "write"]
    /\ UNCHANGED <<user_agent_index, file_lock, waiters, taken, returned, rotCalls>>
    /\ UNCHANGED <<dbVars, crawlVars, schedVars, job, jobsRun, dueVars>>

\* f.write(str(index)) returned, the file is closed, the lock released and
\* next_user_agent returns the entry it picked
RotWritten(c) ==
    /\ rot[c].pc = "write"
    /\ index_file' = TextFile(Digits(rot[c].index))
    /\ returned' = Append(returned, rot[c].no)
    /\ Released(c)
    /\ UNCHANGED <<user_agent_index, taken, rotCalls>>
    /\ UNCHANGED <<dbVars, crawlVars, schedVars, job, jobsRun, dueVars>>

\* the task of the call is cancelled at the await the call stands at. While
\* it waits for the lock it leaves the queue and the file is not touched.
\* At aiofiles.open or f.write the operation runs in a thread of the
\* executor and `done` says whether it still took effect.
RotCancelled(c, done) ==
    /\ rot[c].pc \in {"wait_lock", "open", "write"}
    /\ IF rot[c].pc = "wait_lock"
       THEN /\ ~done
            /\ waiters' = SelectSeq(waiters, LAMBDA x : x # c)
            /\ rot' = [rot EXCEPT ![c] = NoCall]
            /\ UNCHANGED <<index_file, file_lock>>
       ELSE /\ index_file' = IF ~done THEN index_file
                             ELSE IF rot[c].pc = "open" THEN TextFile(<<>>)
                             ELSE TextFile(Digits(rot[c].index))
            /\ Released(c)
    /\ UNCHANGED <<user_agent_index, taken, returned, rotCalls>>
    /\ UNCHANGED <<dbVars, crawlVars, schedVars, job, jobsRun, dueVars>>

\* the process is restarted: the module is imported anew, the file stays
RotRestart ==
    /\ user_agent_index # None
    /\ user_agent_index' = None
    /\ file_lock' = 0
    /\ waiters' = <<>>
    /\ rot' = [c \in Callers |-> NoCall]
    /\ taken' = <<>>
    /\ returned' = <<>>
    /\ UNCHANGED <<index_file, rotCalls>>
    /\ UNCHANGED <<dbVars, crawlVars, schedVars, job, jobsRun, dueVars>>

RotNext ==
    \/ \E c \in Callers : NextUserAgent(c)
    \/ \E c \in Callers : RotOpened(c)
    \/ \E c \in Callers : RotWritten(c)
    \/ \E c \in Callers, done \in BOOLEAN : RotCancelled(c, done)
    \/ RotRestart

(***************************************************************************)
(*        THE IDENTITY OF AN ATTEMPT: get_page_content                     *)
(***************************************************************************)

\* a faulty variant of AgentApplied: one identity serves a whole page
AgentAppliedOncePerPage == picks[current_url] # <<>>

\* agent = await next_user_agent(); session.headers.update(...): the call of
\* get_page_content that is about to send its request took an identity of
\* its own
AgentApplied == Len(picks[current_url]) = Len(tries) + 1

\* get_page_content called by the retry loop, up to its request: a whole
\* call of next_user_agent (the cursor read when it is None, the entry
\* picked, the cursor advanced and wrapped, the cursor saved under
\* file_lock, which the call has to itself)
GetPageContent ==
    /\ cpc = "fetch"
    /\ Len(picks[current_url]) = Len(tries)
    /\ file_lock = 0 /\ waiters = <<>>
    /\ LET start == IF user_agent_index = None
                    THEN get_last_user_agent_index(index_file)
                    ELSE user_agent_index[1]
           next == Wrapped(start + 1)
       IN  /\ start + 1 \in DOMAIN user_agent_list
           /\ taken' = Append(taken, user_agent_list[start + 1])
           /\ picks' = [picks EXCEPT ![current_url] = Append(@, user_agent_list[start + 1])]
           /\ user_agent_index' = Some(next)
           /\ index_file' = TextFile(Digits(next))
    /\ UNCHANGED <<file_lock, waiters, rot, returned, rotCalls>>
    /\ UNCHANGED <<dbVars, crawlVars, schedVars, job, jobsRun, schedule, wall_clock,
                   verdict, priceVars, upsertVars>>

\* the request of the call made and get_page_content returned
Fetched ==
    /\ AgentApplied
    /\ \/ FetchOk
       \/ \E kind \in {"none", "empty"} : FetchFail(kind)

\* one crawl with the identities of its attempts, while the crawl of another
\* store takes identities from the same rotator
FetchNext ==
    \/ LoopHead
    \/ GetPageContent
    \/ Fetched
    \/ RetryWake
    \/ Extract
    \/ DelayWake
    \/ Finish
    \/ NextUserAgent(1)
    \/ RotOpened(1)
    \/ RotWritten(1)

(***************************************************************************)
(*          ONE STORE TASK WITH ITS DATA: fetch_store_data                 *)
(* The steps of fetch_store_data over the tables of the reconciliation     *)
(* store: the backlog read, the notifier calls with the products they      *)
(* pass, the result of main_program. The limiter is left out here: with    *)
(* one task per store of StoreNames a permit is always free.               *)
(***************************************************************************)

MaxJobs == 2            \* store tasks dispatched in one behaviour

\* a faulty variant of GetUnsentProducts: no row is read
GetNoProducts(products) == {}

\* SELECT id, name, ... FROM Product WHERE is_sent = 0
GetUnsentProducts(products) == {p \in products : p.is_sent = 0}

\* the ids of the products of a list (of rows or of returned dicts)
IdsOf(list) == {list[i].id : i \in 1..Len(list)}

\* a faulty variant of NonEmpty: the call is made with any list
NonEmptyAlways(products) == TRUE

\* "if not products or len(products) == 0: return None", "if new_products:",
\* "if updated_products:"
NonEmpty(products) == products # {}

\* store['name_format'], the label of the store in a notifier call
NameFormat(S) == [format_of |-> S]

\* discord_bot.send_new_items(store['name_format'], products, kind), the
\* products by their ids
NotifierCall(kind, S, ids) == [kind |-> kind, label |-> NameFormat(S), ids |-> ids]

\* main_program called: the first page fetch of the crawl
CrawlBegun(S) == [kind |-> "fetch", label |-> NameFormat(S), ids |-> {}]

\* a faulty variant of Batches: the "updated" batch goes first
BatchesUpdatedFirst(new, updated) ==
    (IF NonEmpty(updated) THEN <<[kind |-> "updated", ids |-> updated]>> ELSE <<>>)
    \o (IF NonEmpty(new) THEN <<[kind |-> "new", ids |-> new]>> ELSE <<>>)

\* if new_products: send "new"; if updated_products: send "updated"
Batches(new, updated) ==
    (IF NonEmpty(new) THEN <<[kind |-> "new", ids |-> new]>> ELSE <<>>)
    \o (IF NonEmpty(updated) THEN <<[kind |-> "updated", ids |-> updated]>> ELSE <<>>)

\* a faulty variant of Processed: the items are kept only at the normal end
ProcessedOnlyAtEnd(exit, current_items_) ==
    IF exit = "end" THEN current_items_ ELSE <<>>

\* what main_program passes to process_items where it leaves: after the loop
\* ("end"), on exhausted retries ("fetch_failed"), in except ("exception");
\* in each place "if current_items: return await process_items(...)"
Processed(exit, current_items_) == current_items_

\* db.update_and_archive_products(store_name, current_items), called by
\* process_items: the reconciliation of a snapshot, returning (new, updated)
UpdateAndArchiveProducts(stores, nsid, D, store_name, items) ==
    SyncStoreProducts(stores, nsid, D, store_name, items, {})

\* "if name and product_url and prices: items.append(...)": the lists that
\* extract_items_by_config can return
Extractable(item) ==
    /\ item.name # None
    /\ item.product_url # ""
    /\ item.prices.JPY # None \/ item.prices.EUR # None

CrawledLists == {L \in ItemLists : \A i \in 1..Len(L) : Extractable(L[i])}

\* after: how the task of the store before this one ended ("none": there
\* was none, "restart": the process was restarted over it). n: the number
\* of items main_program had collected where it left; kept: they were all
\* passed to process_items
NoJob == [pc |-> "idle", after |-> "none", due |-> {}, events |-> <<>>, todo |-> <<>>,
          ended |-> "none", n |-> 0, exit |-> "none", kept |-> TRUE, result |-> [new |-> {}, updated |-> {}]]

TaskIdle ==
    /\ job = [S \in StoreNames |-> NoJob]
    /\ jobsRun = 0
    /\ DueIdle
    /\ RotIdle

\* run_scheduled_tasks: asyncio.create_task(self.fetch_store_data(...)).
\* due: the products of the store that are persisted with is_sent = 0 now.
J_Dispatch(S) ==
    /\ jobsRun < MaxJobs
    /\ job[S].pc \in {"idle", "done"}
    /\ job' = [job EXCEPT ![S] =
                 [NoJob EXCEPT !.pc = "created",
                               !.after = job[S].ended,
                               !.due = {p.id : p \in {q \in productTable :
                                           /\ q.is_sent = 0
                                           /\ \E r \in storeTable :
                                                r.id = q.store_id /\ r.name = S}}]]
    /\ jobsRun' = jobsRun + 1
    /\ UNCHANGED <<dbVars, crawlVars, schedVars, dueVars, rotVars>>

\* the task starts: fetch_unsent_products, then the "unsent" call or main_program
J_Start(S) ==
    /\ job[S].pc = "created"
    /\ LET unsent == {p.id : p \in GetUnsentProducts(productTable)}
       IN  job' = [job EXCEPT
                    ![S].pc = IF NonEmpty(unsent) THEN "send_unsent" ELSE "crawl",
                    ![S].events = Append(@, IF NonEmpty(unsent)
                                            THEN NotifierCall("unsent", S, unsent)
                                            ELSE CrawlBegun(S))]
    /\ UNCHANGED <<dbVars, crawlVars, schedVars, jobsRun, dueVars, rotVars>>

\* the "unsent" call returned: main_program is called
J_UnsentSent(S) ==
    /\ job[S].pc = "send_unsent"
    /\ job' = [job EXCEPT ![S].pc = "crawl", ![S].events = Append(@, CrawlBegun(S))]
    /\ UNCHANGED <<dbVars, crawlVars, schedVars, jobsRun, dueVars, rotVars>>

\* the "unsent" call raised: the exception leaves fetch_store_data
J_UnsentRaise(S) ==
    /\ job[S].pc = "send_unsent"
    /\ job' = [job EXCEPT ![S].pc = "done", ![S].ended = "raised"]
    /\ UNCHANGED <<dbVars, crawlVars, schedVars, jobsRun, dueVars, rotVars>>

\* main_program returned, having collected the items `items` and left at
\* `exit`. Without items it returns [], which "new_products, updated_products
\* = result" cannot unpack: except Exception, finally. With items the result
\* of process_items is unpacked and the first batch, if any, is sent.
J_CrawlReturn(S, items, exit) ==
    /\ job[S].pc = "crawl"
    /\ LET given == Processed(exit, items)
       IN  IF given = <<>>
           THEN /\ job' = [job EXCEPT ![S].pc = "done", ![S].ended = "ok",
                                      ![S].exit = exit, ![S].n = Len(items),
                                      ![S].kept = (given = items)]
                /\ UNCHANGED dbVars
           ELSE LET r == UpdateAndArchiveProducts(storeTable, nextStoreId,
                            [products |-> productTable, nextProductId |-> nextProductId,
                             clock |-> clock], S, given)
                    todo == Batches(IdsOf(r.new), IdsOf(r.updated))
                IN  /\ storeTable' = r.stores
                    /\ nextStoreId' = r.nextStoreId
                    /\ productTable' = r.D.products
                    /\ nextProductId' = r.D.nextProductId
                    /\ clock' = r.D.clock
                    /\ UNCHANGED <<last, opCount>>
                    /\ job' = [job EXCEPT
                                 ![S].exit = exit,
                                 ![S].n = Len(items),
                                 ![S].kept = (given = items),
                                 ![S].result = [new |-> IdsOf(r.new),
                                                updated |-> IdsOf(r.updated)],
                                 ![S].todo = todo,
                                 ![S].pc = IF todo = <<>> THEN "done" ELSE "send",
                                 ![S].ended = IF todo = <<>> THEN "ok" ELSE "none",
                                 ![S].events = IF todo = <<>> THEN @
                                               ELSE Append(@, NotifierCall(todo[1].kind, S,
                                                                           todo[1].ids))]
    /\ UNCHANGED <<crawlVars, schedVars, jobsRun, dueVars, rotVars>>

\* the "new" or the "updated" call returned: the next batch is sent in a
\* call of its own, or the task ends
J_BatchSent(S) ==
    /\ job[S].pc = "send"
    /\ LET rest == Tail(job[S].todo)
       IN  job' = [job EXCEPT
                    ![S].todo = rest,
                    ![S].pc = IF rest = <<>> THEN "done" ELSE "send",
                    ![S].ended = IF rest = <<>> THEN "ok" ELSE "none",
                    ![S].events = IF rest = <<>> THEN @
                                  ELSE Append(@, NotifierCall(rest[1].kind, S, rest[1].ids))]
    /\ UNCHANGED <<dbVars, crawlVars, schedVars, jobsRun, dueVars, rotVars>>

\* the "new" or the "updated" call raised: except Exception, finally
J_BatchRaise(S) ==
    /\ job[S].pc = "send"
    /\ job' = [job EXCEPT ![S].todo = <<>>, ![S].pc = "done",
                          ![S].ended = "notify_failed"]
    /\ UNCHANGED <<dbVars, crawlVars, schedVars, jobsRun, dueVars, rotVars>>

\* the process is restarted: the tasks are gone, the database file stays
J_Restart ==
    /\ \E S \in StoreNames : job[S].pc # "idle"
    /\ job' = [S \in StoreNames |->
                 IF job[S].pc = "idle" THEN job[S] ELSE [NoJob EXCEPT !.ended = "restart"]]
    /\ UNCHANGED <<dbVars, crawlVars, schedVars, jobsRun, dueVars, rotVars>>

TaskNext ==
    \/ \E S \in StoreNames : J_Dispatch(S)
    \/ \E S \in StoreNames : J_Start(S)
    \/ \E S \in StoreNames : J_UnsentSent(S)
    \/ \E S \in StoreNames : J_UnsentRaise(S)
    \/ \E S \in StoreNames, L \in CrawledLists, exit \in {"end", "fetch_failed", "exception"} :
            J_CrawlReturn(S, L, exit)
    \/ \E S \in StoreNames : J_BatchSent(S)
    \/ \E S \in StoreNames : J_BatchRaise(S)
    \/ J_Restart

(***************************************************************************)
(*                         THE SPECIFICATIONS                              *)
(***************************************************************************)

\* the scheduler with its store tasks; the tables and the crawl variables of
\* the other two specifications stay as they start
Init == SchedInit /\ DbInit /\ CrawlIdle /\ TaskIdle

Spec == Init /\ [][Next]_vars

\* the steps of the task of store s
TaskStep(s) ==
    \/ T_Start(s)
    \/ T_UnsentSent(s)
    \/ T_UnsentRaise(s)
    \/ T_Acquire(s)
    \/ \E new, updated, ins \in BOOLEAN : T_CrawlReturn(s, new, updated, ins)
    \/ T_NewSent(s)
    \/ T_NewRaise(s)
    \/ T_UpdatedDone(s)
    \/ T_Cancelled(s)
    \/ T_CancelledSaving(s)
    \/ T_Saved(s)

\* one tick on which every store is due, more tasks than the limiter admits;
\* shutdown comes from the finally block of schedule_runner, after gather
\* re-raised the exception of a task
LimiterNext ==
    \/ R_Start
    \/ R_Tick(Stores)
    \/ R_GatherDone
    \/ R_GatherRaise
    \/ R_Wake
    \/ R_FinStop
    \/ R_FinGs
    \/ R_FinGsResume
    \/ R_FinSleep
    \/ \E s \in Stores : TaskStep(s)

\* the event loop runs every task that is ready, and crawls and notifier
\* calls terminate
SpecLimiter == Init /\ [][LimiterNext]_vars /\ \A s \in Stores : WF_vars(TaskStep(s))

\* the reconciliation store alone: no crawl, the scheduler as constructed
InitDb == DbInit /\ CrawlIdle /\ SchedIdle /\ TaskIdle

SpecDb == InitDb /\ [][DbNext]_vars

\* the reconciliation of one store when the storage can fail an upsert
InitDbFault == DbInit /\ CrawlIdle /\ SchedIdle /\ TaskIdle

DbFaultNext ==
    \/ \E L \in ItemLists : Sync("s", L)
    \/ \E L \in ItemLists, failing \in SUBSET (1..MaxLen) : SyncWithErrors("s", L, failing)

SpecDbFault == InitDbFault /\ [][DbFaultNext]_vars

\* calls of sync_store_products by store tasks that run at the same time
SpecUpsert == InitDbFault /\ [][UpsertNext]_vars

\* calls of sync_store_products for two stores, the resolution of store "t"
\* failing in some of them
StoreFaultNext ==
    \/ \E S \in StoreNames, L \in ItemLists : Sync(S, L)
    \/ \E L \in ItemLists, at \in {"select", "insert", "reselect"} :
          SyncUnresolved("t", L, at)

SpecStoreFault == InitDbFault /\ [][StoreFaultNext]_vars

\* store tasks with their data over the tables
InitTask == TaskIdle /\ DbInit /\ CrawlIdle /\ SchedIdle

SpecTask == InitTask /\ [][TaskNext]_vars

\* the rotator under concurrent calls, cancellation and restart
InitRot == RotInit /\ job = [S \in StoreNames |-> NoJob] /\ jobsRun = 0 /\ DueIdle
             /\ DbInit /\ CrawlIdle /\ SchedIdle

SpecRot == InitRot /\ [][RotNext]_vars

\* the parsing of one price text
InitPrice == PriceInit /\ verdict = None /\ schedule = Schedules0 /\ wall_clock = Times0
             /\ picks = [u \in Urls |-> <<>>] /\ UpsertIdle
             /\ job = [S \in StoreNames |-> NoJob] /\ jobsRun = 0 /\ RotIdle
             /\ DbInit /\ CrawlIdle /\ SchedIdle

SpecPrice == InitPrice /\ [][PriceNext]_vars

InitExtract == ExtractInit /\ verdict = None /\ schedule = Schedules0 /\ wall_clock = Times0
               /\ picks = [u \in Urls |-> <<>>] /\ UpsertIdle
               /\ job = [S \in StoreNames |-> NoJob] /\ jobsRun = 0 /\ RotIdle
               /\ DbInit /\ CrawlIdle /\ SchedIdle

SpecExtract == InitExtract /\ [][ExtractNext]_vars

\* one evaluation of should_run_now on a schedule and a time
InitDue == DueInit /\ job = [S \in StoreNames |-> NoJob] /\ jobsRun = 0 /\ RotIdle
             /\ DbInit /\ CrawlIdle /\ SchedIdle

DueNext == ShouldRunNow

SpecDue == InitDue /\ [][DueNext]_vars

(***************************************************************************)
(*                 PROPERTIES OF THE RECONCILIATION STORE                  *)
(***************************************************************************)

\* initial_fetch of the store named S in a Store table; NULL without a row
FetchStamp(stores, S) ==
    IF \E r \in stores : r.name = S
    THEN (CHOOSE r \in stores : r.name = S).initial_fetch
    ELSE NULL

\* the passes of the last sync call that reached add_or_update_product
Upserts == {k \in 1..Len(last.steps) : last.steps[k].status # "raised"}

\* the rows of the store of the last call that share the image of pass k
SameImage(k) ==
    {p \in last.steps[k].pre : p.store_id = last.sid
                               /\ p.image_url = last.steps[k].args[1].image_url}

\* ... and its URL too
SameImageAndUrl(k) ==
    {p \in SameImage(k) : p.product_url = last.steps[k].args[1].product_url}

\* pass k inserted exactly one row, for its item, and changed no other row
InsertedOne(k) ==
    LET st == last.steps[k]
    IN  /\ st.pre \subseteq st.post
        /\ Cardinality(st.post \ st.pre) = 1
        /\ \A r \in st.post \ st.pre :
              /\ r.image_url = st.args[1].image_url
              /\ r.product_url = st.args[1].product_url
              /\ r.store_id = last.sid

\* C4: the first sync_store_products call for a store whose initial_fetch is
\* NULL returns empty new and updated lists whatever the items, and leaves
\* the store's initial_fetch set.
C4_FirstCrawlSuppressed ==
    (last.op = "sync" /\ FetchStamp(last.preStores, last.store) = NULL)
        => /\ last.new = <<>>
           /\ last.updated = <<>>
           /\ FetchStamp(storeTable, last.store) # NULL

\* a first crawl whose items were classified "new" and "updated"
C4_Witness ==
    /\ last.op = "sync"
    /\ FetchStamp(last.preStores, last.store) = NULL
    /\ \E j, k \in Upserts : /\ last.steps[j].status = "new"
                            /\ last.steps[k].status = "updated"

\* C5: a sync_store_products call that repeats the call just before it (same
\* store, same item list, nothing in between) returns empty new and updated
\* lists and inserts no product row.
C5_SyncIdempotent ==
    (last.op = "sync" /\ last.repeat)
        => /\ last.new = <<>>
           /\ last.updated = <<>>
           /\ {p.id : p \in productTable} = {p.id : p \in last.preProducts}
           /\ nextProductId = last.preNextProductId

\* a repeated call whose first call reported new and updated products
C5_Witness ==
    /\ last.op = "sync" /\ last.repeat
    /\ last.prevNew # <<>>
    /\ last.prevUpdated # <<>>

\* C6: an item whose image is held by rows of the store, none of them with
\* the item's URL, inserts exactly one row, is classified "updated", and
\* leaves every existing row as it was.
C6_SiblingOnSharedImage ==
    last.op = "sync" =>
        \A k \in Upserts :
            (SameImage(k) # {} /\ SameImageAndUrl(k) = {})
                => /\ last.steps[k].status = "updated"
                   /\ InsertedOne(k)

\* a sibling was inserted and reported in the updated list
C6_Witness ==
    /\ last.op = "sync"
    /\ \E k \in Upserts : /\ SameImage(k) # {} /\ SameImageAndUrl(k) = {}
                          /\ last.steps[k].list = "updated"

C9_InitialFetchSetOnce ==
    \A S \in StoreNames :
        LET pre == FetchStamp(last.preStores, S)
            post == FetchStamp(storeTable, S)
        IN  /\ (pre # NULL /\ last.op \in {"sync", "archive", "sent"}) => post = pre
            /\ (pre = NULL /\ post # NULL) => (last.op = "sync" /\ last.store = S)

\* a later sync of an initialised store that inserted a row
C9_Witness ==
    /\ last.op = "sync"
    /\ FetchStamp(last.preStores, last.store) # NULL
    /\ \E k \in Upserts : last.steps[k].status = "new"

\* the crawl of one store, the reconciliation store left alone; every step of
\* main_program is a step of its task, which the event loop runs whenever it
\* is ready: weak fairness of the crawl's next step
InitCrawl == CrawlInit /\ DbInit /\ SchedIdle /\ TaskIdle

SpecCrawl == InitCrawl /\ [][CrawlNext]_vars /\ WF_vars(CrawlNext)

(***************************************************************************)
(*                      PROPERTIES OF THE CRAWL                            *)
(***************************************************************************)

\* C10: on every page graph over finitely many URLs, cyclic ones included,
\* no URL is fetched in more than one pagination step, the loop is left when
\* the next URL is absent, unresolvable or already visited, and the crawl
\* ends.
C10_PaginationTerminates ==
    /\ [](\A u \in Urls : fetchSteps[u] <= 1)
    /\ [](cpc = "fetch" => current_url \in visited_urls)
    /\ [](stop \in {"absent", "no_href", "visited"} => cpc \in {"finish", "done"})
    /\ <>(cpc = "done")

\* a crawl over a cycle ended at the first repeated URL: page 2 links back
\* to page 1, both were fetched once
C10_Witness ==
    /\ cpc = "done"
    /\ stop = "visited"
    /\ NextPageUrl(site[1].link) = 2
    /\ NextPageUrl(site[2].link) = 1
    /\ fetchSteps[1] = 1 /\ fetchSteps[2] = 1

\* C11: for each page URL at most 3 fetch attempts are made; an attempt is
\* made only after attempts that failed, so none follows a successful one
\* (one that returned the text of the response); the text given to
\* extraction is that of the last attempt, the third when the first two
\* failed; the page is treated as failed only after 3 failed attempts.
C11_BoundedRetry ==
    /\ Len(tries) <= 3
    /\ \A i \in 1..(Len(tries) - 1) : tries[i] = "none"
    /\ parsed # 0 => parsed = Len(tries) /\ tries[parsed] # "none"
    /\ stop = "fetch_failed" => Len(tries) = 3 /\ \A i \in 1..3 : tries[i] = "none"

\* the items of a list at the positions outside `bad`, in their order
RECURSIVE Without(_, _, _)
Without(items, bad, k) ==
    IF k > Len(items) THEN <<>>
    ELSE (IF k \in bad THEN <<>> ELSE <<items[k]>>) \o Without(items, bad, k + 1)

\* the passes of the loop that classified an item
Classified(steps) ==
    LET Ran(step) == step.status \notin {"raised", "error"}
    IN  SelectSeq(steps, Ran)

\* C20: a call of sync_store_products in which items fail (no name, or a
\* storage error on the upsert) leaves the tables, returns the lists and
\* upserts and classifies every other item exactly as the call on the list
\* without the failed items does from the same tables.
C20_BadItemSkipped ==
    [][(opCount' = opCount + 1 /\ last'.op = "sync") =>
         LET items == last'.items
             bad == {k \in 1..Len(items) : Malformed(items[k]) \/ k \in last'.failing}
             r == SyncStoreProducts(storeTable, nextStoreId,
                     [products |-> productTable, nextProductId |-> nextProductId,
                      clock |-> clock], last'.store, Without(items, bad, 1), {})
         IN  /\ storeTable' = r.stores
             /\ productTable' = r.D.products
             /\ nextProductId' = r.D.nextProductId
             /\ last'.new = r.new
             /\ last'.updated = r.updated
             /\ Classified(last'.steps) = r.steps
             /\ Len(last'.steps) = Len(items)]_vars

\* a call after the first fetch: the upsert of the first item met a storage
\* error, the second item was inserted and returned as new
C20_Witness ==
    /\ last.op = "sync"
    /\ Len(last.items) = 2
    /\ last.failing = {1}
    /\ last.steps[1].status = "error"
    /\ last.steps[2].status = "new"
    /\ last.new # <<>>

\* the ids of the persisted products
PersistedIds == {p.id : p \in productTable}

\* C36: sync_store_products(S, items) and mark_products_as_archived(S, urls)
\* change no product row of a store other than S and no Store row other than
\* that of S, also when another store holds products with the same image_url
\* or product_url.
OwnedBy(stores, S, p) == \E r \in stores : r.id = p.store_id /\ r.name = S

C36_StoreIsolation ==
    [][(opCount' = opCount + 1 /\ last'.op \in {"sync", "archive"})
       => /\ {p \in productTable : ~OwnedBy(storeTable, last'.store, p)}
               = {p \in productTable' : ~OwnedBy(storeTable', last'.store, p)}
          /\ {r \in storeTable : r.name # last'.store}
               = {r \in storeTable' : r.name # last'.store}]_vars

\* a store was synchronised while another store held a product with the same
\* image_url and product_url, and then had this product archived
C36_Witness ==
    /\ last.op = "archive"
    /\ \E p, q \in productTable :
          /\ p.store_id # q.store_id
          /\ p.image_url = q.image_url /\ p.product_url = q.product_url
          /\ p.first_seen < q.first_seen
          /\ OwnedBy(storeTable, last.store, q)
          /\ q.archived = 1 /\ q \notin last.preProducts
          /\ p.archived = 0 /\ p \in last.preProducts

\* C22: sync_store_products, mark_products_as_archived and
\* mark_product_as_sent remove no product row, the set of persisted ids
\* only grows under them; a step that removes a row is a delete_store or a
\* delete_product.
C22_RowsOnlyGrow ==
    [][/\ (opCount' = opCount + 1 /\ last'.op \in {"sync", "archive", "sent"})
             => PersistedIds \subseteq PersistedIds'
       /\ ~(PersistedIds \subseteq PersistedIds')
             => last'.op \in {"delete_store", "delete_product"}]_vars

\* a store was reconciled with a list that no longer holds one of its
\* products, and the row of that product is still there, untouched and not
\* flagged
C22_Witness ==
    /\ last.op = "sync"
    /\ last.items # <<>>
    /\ \E p \in productTable \cap last.preProducts :
          /\ p.store_id = last.sid
          /\ p.archived = 0

(***************************************************************************)
(*                    PROPERTIES OF A STORE TASK                           *)
(***************************************************************************)

\* the place of an event in the order "unsent", first fetch, "new", "updated"
Rank(kind) == CASE kind = "unsent" -> 1 [] kind = "fetch" -> 2
                [] kind = "new" -> 3 [] kind = "updated" -> 4

KindsOf(events) == [i \in 1..Len(events) |-> events[i].kind]

\* the notifier calls among the events of a task
CallsOf(S) == {job[S].events[i] : i \in {k \in 1..Len(job[S].events) :
                                          job[S].events[k].kind # "fetch"}}

\* the name of the store that owns the product with this id
OwnerOf(id) ==
    LET p == CHOOSE q \in productTable : q.id = id
    IN  (CHOOSE r \in storeTable : r.id = p.store_id).name

C14_OneStorePerCall ==
    \A S \in StoreNames :
        \A e \in CallsOf(S) :
            \A id \in e.ids : e.label = NameFormat(OwnerOf(id))

C1_AtMostThreePipelines ==
    Cardinality({s \in Stores : InLimiter(s)}) <= 3

\* three tasks crawl while a fourth waits for the limiter
C1_Witness ==
    /\ Cardinality({s \in Stores : task[s].pc = "crawl"}) = 3
    /\ \E s \in Stores : task[s].pc = "wait_sem"

\* C26: a store task holds its permit of the limiter for its whole crawl:
\* it takes the permit (the value was positive) on entering the crawl, keeps
\* it through the crawl, the "new" and "updated" notifier calls and the
\* saving of the index, and returns it only on ending (done, failed or
\* cancelled); the permits out are those of the tasks in these phases.
C26_PermitHeldForCrawl ==
    [][/\ \A s \in Stores :
            /\ (~InLimiter(s) /\ InLimiter(s)') =>
                  /\ task'[s].pc = "crawl"
                  /\ sem > 0 /\ sem' = sem - 1
            /\ (InLimiter(s) /\ ~InLimiter(s)') =>
                  /\ task[s].pc = "saving" /\ task'[s].pc = "done"
                  /\ sem' = sem + 1
            /\ (task[s].pc \in {"crawl", "send_new", "send_updated"}
                  /\ task'[s].pc # task[s].pc) => InLimiter(s)'
       /\ sem' > sem => \E s \in Stores : InLimiter(s) /\ ~InLimiter(s)'
       /\ sem' = SEMAPHORE - Cardinality({s \in Stores : InLimiter(s)'})
      ]_vars

\* a task that crawled makes its "updated" notifier call after its "new"
\* one, its permit still out
C26_Witness ==
    \E s \in Stores :
        /\ task[s].pc = "send_updated"
        /\ sem = SEMAPHORE - Cardinality({t \in Stores : InLimiter(t)})
        /\ sem < SEMAPHORE

\* C32: after a shutdown request no crawl starts: a task that was created,
\* drains the backlog or waits for the limiter when shutdown is requested
\* never enters the crawl afterwards, and no task crawls on a session that
\* was closed.
C32_NoCrawlAfterShutdown ==
    /\ [][\A s \in Stores :
            (shutdown_event /\ task[s].pc # "crawl") => task'[s].pc # "crawl"]_vars
    /\ [](\A s \in Stores :
            (task[s].pc = "crawl" /\ task[s].cancel = "no") => session # "closed")

\* C37: current_tasks holds exactly the store tasks that hold a permit of the
\* limiter (at most SEMAPHORE entries, each once, none of a finished task),
\* and a shutdown that walks it while the cancelled tasks remove themselves
\* from it cancels every task that was registered and running when the walk
\* began: when the walk is over none of them runs uncancelled.
C37_RegistryOfPermitHolders ==
    /\ Len(current_tasks) <= SEMAPHORE
    /\ \A i, j \in 1..Len(current_tasks) : current_tasks[i] = current_tasks[j] => i = j
    /\ {current_tasks[i] : i \in 1..Len(current_tasks)} = {s \in Stores : InLimiter(s)}
    /\ \A who \in {"ext", "runner"} :
          gs[who].pc = "done" =>
              \A s \in gs[who].registered : InLimiter(s) => task[s].cancel # "no"

\* C34: the limiter leaks no permit: a task that leaves the limiter, normally,
\* after an exception or cancelled, returns its permit; when no task is inside
\* the limiter all permits are available; and a task waiting for a permit is
\* eventually admitted unless shutdown is requested.
C34_NoPermitLeak ==
    /\ [][\A s \in Stores : (InLimiter(s) /\ Done(s)') => sem' = sem + 1]_vars
    /\ []((\A s \in Stores : ~InLimiter(s)) => sem = SEMAPHORE)
    /\ \A s \in Stores :
          (task[s].pc = "wait_sem") ~> (task[s].pc = "crawl" \/ shutdown_event)

\* four tasks of one tick, more than the limiter admits, have all ended, one
\* of them cancelled and one normally, and the permits are back
C34_Witness ==
    /\ ticks = 1 /\ dispatched = NStores /\ NStores > SEMAPHORE
    /\ \A s \in Stores : Done(s)
    /\ \E s \in Stores : task[s].outcome = "cancelled"
    /\ \E s \in Stores : task[s].outcome = "ok"
    /\ sem = SEMAPHORE

\* C33: the scheduler never runs two tasks of one store at once: a task is
\* created for a store only when no earlier task of that store is alive, and
\* while the loop evaluates the schedules or sits in the 60-second wait no
\* task created by the loop is alive.
Alive(s) == task[s].pc = "created" \/ InFlight(s)

C33_OneTaskPerStore ==
    /\ [][\A s \in Stores :
            (task'[s].pc = "created" /\ task'[s] # task[s]) => ~Alive(s)]_vars
    /\ [](runner.pc \in {"loop", "wait"} => \A s \in Stores : ~Alive(s))

\* a store dispatched by the second tick runs its second task
C33_Witness == ticks = 2 /\ dispatched >= 2 /\ InFlight(1) /\ runner.pc = "gather"

\* C2: the HTTP session and the database connection are closed only when no
\* store task is still running.
C2_NoCloseWhileTaskRuns ==
    (session = "closed" \/ ~db_open) => \A s \in Stores : ~InFlight(s)

\* C3: a failure in one store's task stays inside that task: no exception
\* leaves fetch_store_data, the scheduler loop is not left by an error, and
\* no task is cancelled unless a shutdown was requested.
C3_FailureContained ==
    /\ \A s \in Stores : task[s].outcome # "raised"
    /\ runner.exit # "error"
    /\ \A s \in Stores : task[s].outcome = "cancelled" => main_event

\* C16: a graceful_shutdown request made when the shutdown event is set, by
\* main_file.graceful_shutdown or by the finally block of schedule_runner,
\* cancels no task, closes nothing and leaves the state of the scheduler as
\* it is (the runner only goes on to the statement after the call).
C16_ShutdownIdempotent ==
    [][/\ (shutdown_event /\ E_Request)
          => UNCHANGED <<runner, shutdown_event, session, db_open, sem, current_tasks,
                         task, gs, ticks, dispatched, backlog>>
       /\ (shutdown_event /\ R_FinGs)
          => /\ UNCHANGED <<shutdown_event, session, db_open, sem, current_tasks,
                            task, gs, ticks, dispatched, backlog>>
             /\ runner' = [runner EXCEPT !.pc = "fin_sleep"]]_vars

\* the requested shutdown still awaits a task it cancelled, and the runner
\* has made its own graceful_shutdown call, which did nothing: its loop over
\* current_tasks never ran
C16_Witness ==
    /\ main_event
    /\ shutdown_event
    /\ gs["ext"].pc = "await"
    /\ gs["runner"].pc = "idle"
    /\ runner.pc = "fin_sleep"

\* the lifecycle of the scheduler: 0 Idle (schedule_runner not yet in its
\* loop), 1 Running, 2 ShuttingDown (the event set, or the runner in its
\* finally block), 3 Stopped (schedule_runner returned)
Lifecycle ==
    IF runner.pc = "stopped" THEN 3
    ELSE IF shutdown_event \/ runner.pc \in {"fin_stop", "fin_gs", "fin_gs_await", "fin_sleep"}
         THEN 2
    ELSE IF runner.pc = "start" THEN 0
    ELSE 1

\* C17: the lifecycle never goes back; the shutdown event, once set, stays
\* set; and while it is set the schedule loop enters no tick (it never
\* leaves its loop condition for run_scheduled_tasks) and no store task is
\* created.
C17_LifecycleForward ==
    [][/\ Lifecycle' >= Lifecycle
       /\ shutdown_event => shutdown_event'
       /\ shutdown_event =>
             /\ ~(runner.pc = "loop" /\ runner'.pc \in {"gather", "wait"})
             /\ ticks' = ticks
             /\ dispatched' = dispatched
             /\ \A s \in Stores : task'[s].pc = "created" => task[s].pc = "created"]_vars

\* a shutdown requested while tasks had been dispatched: the runner found the
\* event set at its loop condition, left the loop and returned
C17_Witness ==
    /\ shutdown_event
    /\ main_event
    /\ dispatched > 0
    /\ runner.exit = "event"
    /\ runner.pc = "stopped"

(***************************************************************************)
(*                    PROPERTIES OF should_run_now                         *)
(***************************************************************************)

\* the values of a list
RangeOf(list) == {list[i] : i \in 1..Len(list)}

\* C18: should_run_now returns true iff the minute of the time is in the
\* minutes of the schedule and, for each of hours, days, months and years
\* that is a list, the component of the time is in the list; a field that
\* is "*" passes.
C18_ShouldRunNowMatches ==
    verdict # None =>
        (verdict = Some(TRUE) <=>
            /\ wall_clock.minute \in RangeOf(schedule.minutes)
            /\ schedule.hours.star \/ wall_clock.hour \in RangeOf(schedule.hours.list)
            /\ schedule.days.star \/ wall_clock.day \in RangeOf(schedule.days.list)
            /\ schedule.months.star \/ wall_clock.month \in RangeOf(schedule.months.list)
            /\ schedule.years.star \/ wall_clock.year \in RangeOf(schedule.years.list))

\* minutes = [0, 30], hours = "*", days = [1] matched on day 1 at 14:00
C18_Witness ==
    /\ schedule.minutes = <<0, 30>>
    /\ schedule.hours = Wildcard
    /\ schedule.days = Listed(<<1>>)
    /\ wall_clock.day = 1 /\ wall_clock.hour = 14 /\ wall_clock.minute = 0
    /\ verdict = Some(TRUE)

\* one crawl over a site of NPages pages in a row, each with one item
InitFetch ==
    /\ CrawlInit
    /\ \A u \in Urls :
          /\ site[u].nitems = 1
          /\ site[u].link = IF u < NPages THEN [kind |-> "relative", target |-> u + 1]
                            ELSE [kind |-> "absent", target |-> NoUrl]
    /\ DbInit /\ SchedIdle /\ TaskIdle

SpecFetch == InitFetch /\ [][FetchNext]_vars

\* one crawl that an exception may end
CrawlRaisedNext ==
    \/ CrawlNext
    \/ \E kind \in {"CancelledError", "Exception"} : CrawlRaised(kind)

SpecCrawlRaised == InitCrawl /\ [][CrawlRaisedNext]_vars

\* C27: a cancellation is propagated and not retried: a crawl cancelled at
\* the page fetch, at the pause before a retry or at the delay before the
\* next page leaves main_program at once with the CancelledError; after it
\* no fetch attempt is made, the collected items are not reconciled, the
\* crawl never returns (so no notifier call follows it) and the database is
\* not written.
C27_CancellationPropagates ==
    [][/\ (stop' = "CancelledError" /\ stop # "CancelledError") =>
            /\ cpc \in {"fetch", "retry_sleep", "delay"}
            /\ cpc' = "cancelled"
            /\ UNCHANGED <<tries, retries, parsed, current_items, visited_urls, dbVars>>
       /\ stop = "CancelledError" =>
            /\ cpc = "cancelled"
            /\ UNCHANGED <<crawlVars, dbVars>>
      ]_vars

\* a crawl that holds items of an earlier page was cancelled at the pause
\* before a retry of a later page
C27_Witness ==
    /\ cpc = "cancelled"
    /\ stop = "CancelledError"
    /\ current_items # <<>>
    /\ retries > 0
    /\ tries # <<>>

\* the rows that the sections of a log give when they run one after the
\* other, each a whole call of add_or_update_product
RECURSIVE Replayed(_, _)
Replayed(log, k) ==
    IF k = 0 THEN [products |-> {}, nextProductId |-> 1, clock |-> 0]
    ELSE LET e == log[k]
             D == [Replayed(log, k - 1) EXCEPT !.clock = e.now - 1]
         IN  AddOrUpdateProduct(D, e.args.name, e.args.product_url, e.args.image_url,
                                e.args.price_jpy, e.args.price_eur, e.args.archived,
                                e.sid).D

\* C24: when store tasks run sync_store_products at the same time, the
\* upsert of an item runs as one section: one call is inside it at a time,
\* the rows are those that the sections give when they run one after the
\* other as whole upserts, and no two rows of a store share the pair of
\* image_url and product_url.
C24_UpsertAtomic ==
    /\ Cardinality({w \in Writers : up[w].pc = "write"}) <= 1
    /\ \A w \in Writers : up[w].pc = "write" <=> db_lock = w
    /\ productTable = Replayed(sections, Len(sections)).products
    /\ nextProductId = Replayed(sections, Len(sections)).nextProductId
    /\ \A p, q \in productTable :
          (p.store_id = q.store_id /\ p.image_url = q.image_url
              /\ p.product_url = q.product_url) => p.id = q.id

\* two calls for the same store passed the same item, their sections
\* alternating; the second call refreshed the row that the first inserted,
\* and a call waits for the lock while the other is inside the section
C24_Witness ==
    /\ Len(sections) = 2
    /\ sections[1].w # sections[2].w
    /\ sections[1].sid = sections[2].sid
    /\ sections[1].args.product_url = sections[2].args.product_url
    /\ sections[1].args.image_url = sections[2].args.image_url
    /\ Cardinality(productTable) = 1
    /\ \E w, v \in Writers : up[w].pc = "write" /\ up[v].pc = "item"

\* C30: a call of sync_store_products whose store cannot be resolved
\* returns two empty lists, inserts and updates no product row and leaves
\* the initial_fetch of every store as it was (a row it leaves behind for
\* the store has none); a later call for the same store with the items of
\* the failed call reconciles as it would have without the failed call.
C30_UnresolvedStoreAborts ==
    [][(opCount' = opCount + 1 /\ last'.op = "sync_unresolved") =>
         /\ last'.new = <<>> /\ last'.updated = <<>> /\ last'.steps = <<>>
         /\ productTable' = productTable
         /\ nextProductId' = nextProductId
         /\ storeTable \subseteq storeTable'
         /\ \A r \in storeTable' \ storeTable :
                r.name = last'.store /\ r.initial_fetch = NULL
         /\ LET before == SyncStoreProducts(storeTable, nextStoreId,
                              [products |-> productTable, nextProductId |-> nextProductId,
                               clock |-> clock], last'.store, last'.items, {})
                 after == SyncStoreProducts(storeTable', nextStoreId',
                              [products |-> productTable', nextProductId |-> nextProductId',
                               clock |-> clock'], last'.store, last'.items, {})
             IN  after = before]_vars

\* the resolution of store "t" failed after its row was inserted, while
\* store "s" holds products; the next call for "t" inserted its items as a
\* first fetch
C30_Witness ==
    /\ last.op = "sync"
    /\ last.store = "t"
    /\ last.items # <<>>
    /\ last.new = <<>>
    /\ \E r \in last.preStores : r.name = "t" /\ r.initial_fetch = NULL
    /\ \E r \in storeTable : r.name = "t" /\ r.initial_fetch # NULL
    /\ \E p \in last.preProducts : p.store_id = StoreIdOf(storeTable, "s")
    /\ \E p \in productTable : p.store_id = StoreIdOf(storeTable, "t")

(***************************************************************************)
(*                    PROPERTIES OF THE ORDER OF THE PAGES                 *)
(***************************************************************************)

\* the fetch of a page not fetched before starts
PageStarts == cpc = "loop" /\ cpc' = "fetch"

\* C25: within one crawl the pages are fetched in pagination order, one at a
\* time: the first page is base_url; the fetch of a later page starts only
\* when the last attempt of the page before it returned a text, that text
\* was parsed for its items and its next-page link named the page that
\* starts; an attempt is made only for the one page that is being fetched.
C25_PagesInOrder ==
    [][/\ PageStarts =>
            /\ current_url' = current_url
            /\ visited_urls' = visited_urls \cup {current_url}
            /\ visited_urls = {} => current_url = base_url
            /\ visited_urls # {} =>
                  /\ html.kind = "text"
                  /\ tries # <<>> /\ tries[Len(tries)] = "text"
                  /\ parsed = html.attempt
                  /\ \E prev \in visited_urls :
                         NextPageUrl(site[prev].link) = current_url
       /\ tries' # tries /\ tries' # <<>> =>
            /\ cpc = "fetch"
            /\ current_url \in visited_urls
            /\ UNCHANGED <<current_url, visited_urls, parsed, current_items>>
      ]_vars

\* the fetch of a third page is in progress
C25_Witness ==
    /\ cpc = "fetch"
    /\ Cardinality(visited_urls) = 3

(***************************************************************************)
(*                    PROPERTIES OF THE PRICE PARSING                      *)
(***************************************************************************)

\* the first run of characters of a class in a text, said without a scan:
\* it starts at the least position of the class and ends before the next
\* character outside the class
FirstRun(text, class) ==
    LET hits == {k \in 1..Len(text) : text[k] \in class}
    IN  IF hits = {} THEN <<>>
        ELSE LET i == CHOOSE k \in hits : \A h \in hits : k <= h
                 j == CHOOSE m \in i..Len(text) :
                        /\ \A k \in i..m : text[k] \in class
                        /\ m = Len(text) \/ text[m + 1] \notin class
             IN  SubSeq(text, i, j)

RECURSIVE Pow10(_)
Pow10(n) == IF n = 0 THEN 1 ELSE 10 * Pow10(n - 1)

RECURSIVE SumTo(_, _)
SumTo(d, k) == IF k = 0 THEN 0 ELSE SumTo(d, k - 1) + DigitOf(d[k]) * Pow10(Len(d) - k)

\* the number written by the digits of a run, its separators left out
NumberOf(run) ==
    LET d == SelectSeq(run, LAMBDA c : c \in DigitChars)
    IN  IF d = <<>> THEN None ELSE Some(SumTo(d, Len(d)))

\* the rule of the parsing: the number of the first run of digits and
\* separators, for EUR divided by 100; no price without a digit in the run
PriceByRule(text, cur) ==
    LET n == NumberOf(FirstRun(text, IF cur = "JPY" THEN JpyClass ELSE EurClass))
    IN  IF n = None THEN None
        ELSE IF cur = "JPY" THEN Some(n[1] * Scale)
        ELSE Some((n[1] * Scale) \div 100)

\* C23 as stated: "¥12,345" parses to 12345.0 for JPY, "15,50 €" parses to
\* 0.1550 for EUR.
C23_PriceParsingAsStated ==
    prices # None =>
        /\ (price_text = JpyExample /\ currency = "JPY")
              => prices[1]["JPY"] = Some(12345 * Scale)
        /\ (price_text = EurExample /\ currency = "EUR")
              => prices[1]["EUR"] = Some((1550 * Scale) \div 10000)

\* C23, amended: every text parses by the rule (first run of digits and
\* separators, separators stripped, for EUR divided by 100); "¥12,345"
\* parses to 12345.0 for JPY and "15,50 €" parses to 15.50 for EUR.
C23_PriceParsing ==
    prices # None =>
        /\ prices[1][currency] = PriceByRule(price_text, currency)
        /\ (price_text = JpyExample /\ currency = "JPY")
              => prices[1]["JPY"] = Some(12345 * Scale)
        /\ (price_text = EurExample /\ currency = "EUR")
              => prices[1]["EUR"] = Some((1550 * Scale) \div 100)

\* "15,50 €" was parsed for EUR
C23_Witness ==
    /\ prices # None
    /\ price_text = EurExample
    /\ currency = "EUR"
    /\ prices[1]["EUR"] # None

(***************************************************************************)
(*                    PROPERTIES OF THE EXTRACTION                         *)
(***************************************************************************)

\* the candidate has a name that is not empty, a link that resolves and a
\* price that parses, said without the code's test
Complete(c) ==
    /\ c.name = Some("n")
    /\ c.link \in {Some("/p"), Some("http://p")}
    /\ \/ c.price_jpy # None /\ PriceByRule(c.price_jpy[1], "JPY") # None
       \/ c.price_eur # None /\ PriceByRule(c.price_eur[1], "EUR") # None

\* the positions of the complete candidates, in their order
RECURSIVE CompleteFrom(_, _)
CompleteFrom(list, k) ==
    IF k > Len(list) THEN <<>>
    ELSE IF Complete(list[k]) THEN <<k>> \o CompleteFrom(list, k + 1)
    ELSE CompleteFrom(list, k + 1)

\* the candidates with the sold-out flag turned and the image taken away
Turned(list) ==
    [k \in 1..Len(list) |-> [list[k] EXCEPT !.sold_out = ~@, !.image = None]]

\* C31: the extraction keeps a candidate iff it has a non-empty name, a
\* resolved product URL and at least one parsed price; the others are
\* dropped and the page still yields its other items; the sold-out flag and
\* a missing image do not change which candidates are kept.
C31_KeepCondition ==
    page_items # None =>
        LET kept == CompleteFrom(containers, 1)
            got == page_items[1]
        IN  /\ Len(got) = Len(kept)
            /\ \A i \in 1..Len(kept) :
                  LET c == containers[kept[i]]
                  IN  /\ got[i].name = c.name
                      /\ got[i].product_url = ProductUrlOf(c.link)[1]
                      /\ got[i].image_url = c.image
                      /\ got[i].archived = c.sold_out
                      /\ \E cur \in {"JPY", "EUR"} : got[i].prices[cur] # None
            /\ Len(extract_items_by_config(Turned(containers), 1)) = Len(got)

\* a page of two candidates: the first, sold out and without image, is
\* kept; the second has a price tag whose text does not parse and is dropped
C31_Witness ==
    /\ page_items # None
    /\ Len(containers) = 2
    /\ Len(page_items[1]) = 1
    /\ containers[1].sold_out /\ containers[1].image = None
    /\ page_items[1][1].archived
    /\ containers[2].name = Some("n") /\ containers[2].link = Some("/p")
    /\ containers[2].price_jpy = Some(<<",">>) /\ containers[2].price_eur = None

(***************************************************************************)
(*                    PROPERTIES OF THE ROTATOR                            *)
(***************************************************************************)

\* the pool entry after an entry, the first after the last
EntryAfter(entry) == user_agent_list[(entry[2] % NAgents) + 1]

\* C21: the cursor stays within 0..N-1; the calls of next_user_agent pick
\* the pool entries in cyclic order, the first entry after the last; any N
\* calls in a row pick every entry once; and the calls return in the order
\* in which they were made, however the calls of concurrent tasks interleave.
C21_RoundRobin ==
    /\ user_agent_index # None => user_agent_index[1] \in 0..(NAgents - 1)
    /\ \A i \in 1..(Len(taken) - 1) : taken[i + 1] = EntryAfter(taken[i])
    /\ \A i \in 1..Len(taken) :
          i + NAgents - 1 <= Len(taken) =>
              {taken[j] : j \in i..(i + NAgents - 1)} = RangeOf(user_agent_list)
    /\ \A i \in 1..(Len(returned) - 1) : returned[i] < returned[i + 1]

\* four calls were made, the fourth wrapping from the last entry to the
\* first, while calls of three tasks are in progress at once: one writes,
\* two wait for the lock
C21_Witness ==
    /\ Len(taken) = 4
    /\ taken[3] = user_agent_list[NAgents]
    /\ taken[4] = user_agent_list[1]
    /\ Len(waiters) = 2
    /\ \E c \in Callers : rot[c].pc = "write"
    /\ returned # <<>>

(***************************************************************************)
(*                    PROPERTIES OF THE IDENTITIES OF A CRAWL              *)
(***************************************************************************)

\* an attempt of the crawl returns / an identity is taken for the crawl
AttemptReturns == tries' # tries /\ tries' # <<>>
IdentityTaken == picks' # picks

\* every attempt of a crawl takes one identity of its own, retries included
OnePerAttempt ==
    [][/\ AttemptReturns =>
            /\ Len(picks[current_url]) = Len(tries')
            /\ picks' = picks
       /\ IdentityTaken =>
            /\ cpc = "fetch"
            /\ Len(taken') = Len(taken) + 1
            /\ picks' = [picks EXCEPT ![current_url] = Append(@, taken'[Len(taken')])]
            /\ Len(picks'[current_url]) = Len(tries) + 1
            /\ user_agent_index' # user_agent_index
       /\ (cpc = "retry_sleep" /\ cpc' # cpc) => Len(picks[current_url]) = retries
      ]_vars

\* C29 as stated: every attempt takes one identity of its own, and the
\* attempts of a page are given consecutive entries of the pool.
C29_FreshIdentityConsecutive ==
    /\ OnePerAttempt
    /\ [](\A u \in Urls : \A i \in 1..(Len(picks[u]) - 1) :
              picks[u][i + 1] = EntryAfter(picks[u][i]))

\* C29, amended: every attempt takes one identity of its own, so a page
\* that needs 3 attempts is given 3 entries of the pool; they are
\* consecutive entries when no other crawl took an identity meanwhile.
C29_FreshIdentity ==
    /\ OnePerAttempt
    /\ [](rotCalls = 0 =>
             \A u \in Urls : \A i \in 1..(Len(picks[u]) - 1) :
                 picks[u][i + 1] = EntryAfter(picks[u][i]))
    /\ [](\A u \in Urls : Len(picks[u]) <= max_retries)

\* the second page needed 3 attempts and was given 3 entries, the pool
\* wrapping between them, and no other crawl took one
C29_Witness ==
    /\ cpc = "extract"
    /\ current_url = 2
    /\ Len(tries) = 3
    /\ Len(picks[2]) = 3
    /\ rotCalls = 0
    /\ picks[2][1] # picks[2][3]

\* C28: whenever no call of next_user_agent is in progress the persisted
\* cursor equals the cursor in memory, so that a restart resumes the
\* rotation where it stood; an absent or unreadable record is read as 0.
C28_PersistedCursor ==
    /\ get_last_user_agent_index(Absent) = 0
    /\ get_last_user_agent_index(TextFile(<<>>)) = 0
    /\ get_last_user_agent_index(TextFile(<<NotADigit>>)) = 0
    /\ (user_agent_index # None /\ \A c \in Callers : rot[c].pc = "idle") =>
          /\ index_file = TextFile(Digits(user_agent_index[1]))
          /\ get_last_user_agent_index(index_file) = user_agent_index[1]

====
